---- MODULE Spec2Model ----
(***************************************************************************)
(* ReleaseLens: the template-based Word export of the release analyser.    *)
(*                                                                         *)
(* Text is modelled by TLA+ strings and the JavaScript string methods the  *)
(* code uses are written out with their 0-based indices, their -1 results  *)
(* and their clamping.  Strings are ASCII: the em dash U+2014 is written   *)
(* "~" and the en dash U+2013 is written "^" throughout.                   *)
(***************************************************************************)
EXTENDS Integers, Sequences, FiniteSets, TLC

\* ------------------------------------------------------------------------
\* JavaScript string primitives
\* ------------------------------------------------------------------------

MinOf(S) == CHOOSE x \in S : \A y \in S : x <= y

MaxOf(S) == CHOOSE x \in S : \A y \in S : x >= y

\* the first or the last of the indices found, -1 when none is
FirstOf(hits) == IF hits = {} THEN -1 ELSE MinOf(hits)

LastOf(hits) == IF hits = {} THEN -1 ELSE MaxOf(hits)

\* s.charAt(i), 0-based; "" outside the string
CharAt(s, i) == IF i >= 0 /\ i < Len(s) THEN SubSeq(s, i + 1, i + 1) ELSE ""

\* whether pat occurs in s at 0-based index i
StartsAt(s, pat, i) ==
    /\ i >= 0
    /\ i + Len(pat) <= Len(s)
    /\ SubSeq(s, i + 1, i + Len(pat)) = pat

\* s.indexOf(pat, from)
IndexOfFrom(s, pat, from) ==
    FirstOf({i \in 0..(Len(s) - Len(pat)) : i >= from /\ StartsAt(s, pat, i)})

\* s.indexOf(pat)
IndexOf(s, pat) == IndexOfFrom(s, pat, 0)

\* s.lastIndexOf(pat, from): a negative from is taken as 0
LastIndexOfFrom(s, pat, from) ==
    LastOf({i \in 0..(Len(s) - Len(pat)) : (i <= from \/ i = 0) /\ StartsAt(s, pat, i)})

\* s.lastIndexOf(pat)
LastIndexOf(s, pat) == LastIndexOfFrom(s, pat, Len(s))

\* s.includes(pat)
Includes(s, pat) == IndexOf(s, pat) # -1

\* s.startsWith(pat)
StartsWith(s, pat) == StartsAt(s, pat, 0)

\* an index argument of slice: negative counts from the end, then clamped
SliceIndex(s, i) ==
    IF i < 0 THEN (IF Len(s) + i < 0 THEN 0 ELSE Len(s) + i)
    ELSE IF i > Len(s) THEN Len(s) ELSE i

\* s.slice(a, b): empty when the start is not before the end
Slice(s, a, b) == SubSeq(s, SliceIndex(s, a) + 1, SliceIndex(s, b))

\* s.slice(a)
SliceFrom(s, a) == Slice(s, a, Len(s))

\* x || y on strings: the empty string is falsy
OrElse(x, y) == IF x = "" THEN y ELSE x

WhiteSpace == {" ", "\t", "\n", "\r"}

\* s.trim()
SliceSpan(s, keep) == IF keep = {} THEN "" ELSE Slice(s, MinOf(keep), MaxOf(keep) + 1)

Trim(s) == SliceSpan(s, {i \in 0..(Len(s) - 1) : CharAt(s, i) \notin WhiteSpace})

\* the letters, each with its upper-case and its lower-case form
ToUpper ==
    [a |-> "A", b |-> "B", c |-> "C", d |-> "D", e |-> "E", f |-> "F", g |-> "G",
     h |-> "H", i |-> "I", j |-> "J", k |-> "K", l |-> "L", m |-> "M", n |-> "N",
     o |-> "O", p |-> "P", q |-> "Q", r |-> "R", s |-> "S", t |-> "T", u |-> "U",
     v |-> "V", w |-> "W", x |-> "X", y |-> "Y", z |-> "Z"]

ToLower ==
    [A |-> "a", B |-> "b", C |-> "c", D |-> "d", E |-> "e", F |-> "f", G |-> "g",
     H |-> "h", I |-> "i", J |-> "j", K |-> "k", L |-> "l", M |-> "m", N |-> "n",
     O |-> "o", P |-> "p", Q |-> "q", R |-> "r", S |-> "s", T |-> "t", U |-> "u",
     V |-> "v", W |-> "w", X |-> "x", Y |-> "y", Z |-> "z"]

MapLetter(c, map) == IF c \in DOMAIN map THEN map[c] ELSE c

\* character by character, the string halved so that the evaluation stays shallow
RECURSIVE MapLetters(_, _)
MapLetters(s, map) ==
    IF Len(s) = 0 THEN ""
    ELSE IF Len(s) = 1 THEN MapLetter(s, map)
    ELSE MapLetters(SubSeq(s, 1, Len(s) \div 2), map)
            \o MapLetters(SubSeq(s, Len(s) \div 2 + 1, Len(s)), map)

\* s.toUpperCase()
toUpperCase(s) == MapLetters(s, ToUpper)

\* s.toLowerCase()
toLowerCase(s) == MapLetters(s, ToLower)

\* s.replace(new RegExp(c, "g"), by) for a one-character pattern c, the leftmost
\* occurrence being at i
RECURSIVE ReplaceAll(_, _, _)
ReplaceFrom(s, c, by, i) ==
    IF i = -1 THEN s ELSE Slice(s, 0, i) \o by \o ReplaceAll(SliceFrom(s, i + 1), c, by)

ReplaceAll(s, c, by) == ReplaceFrom(s, c, by, IndexOf(s, c))

\* new RegExp(word, "i").test(text) for a literal lower-case word
TestI(word, text) == Includes(toLowerCase(text), word)

\* array.join(sep)
RECURSIVE Join(_, _)
Join(parts, sep) ==
    IF Len(parts) = 0 THEN ""
    ELSE IF Len(parts) = 1 THEN parts[1]
    ELSE parts[1] \o sep \o Join(Tail(parts), sep)

\* array.join("")
Concat(parts) == Join(parts, "")

\* ------------------------------------------------------------------------
\* Style map and markup helpers
\* ------------------------------------------------------------------------

DEFAULT_STYLES ==
    [h1 |-> "Heading1", h2 |-> "Heading2", body |-> "BodyText", bullet |-> "ListBullet",
     tableHeader |-> "TableHeader", tableText |-> "TableText", tableGrid |-> "TableGrid",
     fill |-> "0073E6"]

xmlEsc(s) ==
    ReplaceAll(ReplaceAll(ReplaceAll(ReplaceAll(s, "&", "&amp;"), "<", "&lt;"), ">", "&gt;"),
               "\"", "&quot;")

\* the paragraph every text helper emits: a style reference and one run
StyledPara(style, text) ==
    "<w:p><w:pPr><w:pStyle w:val=\"" \o style \o "\"/></w:pPr><w:r><w:t xml:space=\"preserve\">"
        \o xmlEsc(text) \o "</w:t></w:r></w:p>"

xmlH1(text, st) == StyledPara(st.h1, text)

xmlH2(text, st) == StyledPara(st.h2, text)

xmlBody(text, st) == StyledPara(st.body, text)

xmlBullet(text, st) == StyledPara(st.bullet, text)

xmlSpacer(st) == "<w:p><w:pPr><w:pStyle w:val=\"" \o st.body \o "\"/></w:pPr></w:p>"

\* the width of the first column alone
FirstW(cols) == cols[1].w

RECURSIVE SumW(_)
SumW(cols) == IF Len(cols) = 0 THEN 0 ELSE cols[1].w + SumW(Tail(cols))

HdrCell(c, st) ==
    "<w:tc><w:tcPr><w:tcW w:w=\"" \o ToString(c.w) \o "\" w:type=\"dxa\"/>"
        \o "<w:shd w:val=\"clear\" w:color=\"auto\" w:fill=\"" \o st.fill \o "\"/></w:tcPr>"
        \o "<w:p><w:pPr><w:pStyle w:val=\"" \o st.tableHeader \o "\"/></w:pPr>"
        \o "<w:r><w:t xml:space=\"preserve\">" \o xmlEsc(c.label) \o "</w:t></w:r></w:p></w:tc>"

DataCell(cell, c, st) ==
    "<w:tc><w:tcPr><w:tcW w:w=\"" \o ToString(c.w) \o "\" w:type=\"dxa\"/></w:tcPr>"
        \o "<w:p><w:pPr><w:pStyle w:val=\"" \o st.tableText \o "\"/></w:pPr>"
        \o "<w:r><w:t xml:space=\"preserve\">" \o xmlEsc(cell) \o "</w:t></w:r></w:p></w:tc>"

DataRow(row, cols, st) ==
    "<w:tr>" \o Concat([i \in 1..Len(row) |-> DataCell(row[i], cols[i], st)]) \o "</w:tr>"

xmlTable3(cols, rows, st) ==
    LET totalW == SumW(cols)
        hdrCells == Concat([i \in 1..Len(cols) |-> HdrCell(cols[i], st)])
        dataRows == Concat([r \in 1..Len(rows) |-> DataRow(rows[r], cols, st)])
    IN  "<w:tbl><w:tblPr><w:tblStyle w:val=\"" \o st.tableGrid \o "\"/>"
            \o "<w:tblW w:w=\"" \o ToString(totalW) \o "\" w:type=\"dxa\"/>"
            \o "<w:tblLook w:val=\"04A0\" w:firstRow=\"1\"/></w:tblPr>"
            \o "<w:tblGrid>"
            \o Concat([i \in 1..Len(cols) |-> "<w:gridCol w:w=\"" \o ToString(cols[i].w) \o "\"/>"])
            \o "</w:tblGrid>"
            \o "<w:tr>" \o hdrCells \o "</w:tr>" \o dataRows \o "</w:tbl>"

\* ------------------------------------------------------------------------
\* Finding parsers
\* ------------------------------------------------------------------------

parsePriority(text) ==
    IF TestI("critical", text) THEN "Critical"
    ELSE IF TestI("high", text) THEN "High"
    ELSE IF TestI("medium", text) THEN "Medium"
    ELSE "High"

\* new RegExp("never.*set", "i").test(text) on the lower-cased text t: "." does not
\* cross a line end
NeverSetIn(t) ==
    \E i \in 0..Len(t) :
        /\ StartsAt(t, "never", i)
        /\ \E j \in (i + 5)..Len(t) :
                /\ StartsAt(t, "set", j)
                /\ \A k \in (i + 5)..(j - 1) : CharAt(t, k) \notin {"\n", "\r"}

TestNeverSet(text) == NeverSetIn(toLowerCase(text))

parseDepStatus(text) ==
    IF TestI("prohibit", text) \/ TestI("must not", text) \/ TestNeverSet(text) THEN "Prohibited"
    ELSE IF TestI("replac", text) \/ TestI("supersed", text) THEN "Replaced"
    ELSE IF TestI("merg", text) THEN "Merged/Superseded"
    ELSE IF TestI("remov", text) THEN "Removed"
    ELSE "Deprecated"

parseNature(text) ==
    IF TestI("new section", text) THEN "New section added"
    ELSE IF TestI("fully replac", text) THEN "Fully replaced"
    ELSE IF TestI("remov", text) THEN "Removed"
    ELSE "Updated"

EmDash == "~"

EnDash == "^"

Dashes == {EmDash, EnDash}

\* The dash patterns are built from string literals, new RegExp("\s[...]\s"): in a
\* JavaScript string literal "\s" is the letter s, so the pattern asks for a letter s
\* on either side of the dash, not for white space.

\* b.search(new RegExp("\s[dash]\s"))
SearchDash(b) ==
    FirstOf({i \in 0..(Len(b) - 3) :
                /\ CharAt(b, i) = "s"
                /\ CharAt(b, i + 1) \in Dashes
                /\ CharAt(b, i + 2) = "s"})

\* the index of the first character of t at or after i that is not a letter s
SkipS(t, i) == MinOf({j \in i..Len(t) : CharAt(t, j) # "s"})

\* t.replace(new RegExp("^\s*[dash]\s*"), "")
StripLeadDash(t) ==
    IF CharAt(t, SkipS(t, 0)) \in Dashes THEN SliceFrom(t, SkipS(t, SkipS(t, 0) + 1)) ELSE t

\* where the leftmost match of new RegExp("\s+[dash]\s+") starts in b, or -1
SplitMatchStart(b) ==
    FirstOf({i \in 0..(Len(b) - 3) :
                /\ CharAt(b, i) = "s"
                /\ CharAt(b, SkipS(b, i)) \in Dashes
                /\ CharAt(b, SkipS(b, i) + 1) = "s"})

\* b.split(new RegExp("\s+[dash]\s+")), the leftmost match starting at i
RECURSIVE SplitDash(_)
SplitAt(b, i) ==
    IF i = -1 THEN <<b>>
    ELSE <<Slice(b, 0, i)>> \o SplitDash(SliceFrom(b, SkipS(b, SkipS(b, i) + 1)))

SplitDash(b) == SplitAt(b, SplitMatchStart(b))

\* parts[i] of a JavaScript array (0-based), "" standing for undefined
PartAt(parts, i) == IF i + 1 <= Len(parts) THEN parts[i + 1] ELSE ""

\* ------------------------------------------------------------------------
\* What is parsed from one finding, per scope
\* ------------------------------------------------------------------------

\* the title and the detail of a feature, from the place of the colon and of the dash
FeatureAt(b, colonIdx, dash) ==
    IF colonIdx > 5 /\ colonIdx < 80
    THEN [title |-> Trim(Slice(b, 0, colonIdx)), detail |-> Trim(SliceFrom(b, colonIdx + 1))]
    ELSE [title |-> IF dash > 5 THEN Trim(Slice(b, 0, dash)) ELSE Trim(Slice(b, 0, 60)),
          detail |-> IF dash > 5 THEN StripLeadDash(SliceFrom(b, dash)) ELSE ""]

ParseNewFeature(b) == FeatureAt(b, IndexOf(b, ":"), SearchDash(b))

\* the table rows [item, status, notes], [section, nature, impact],
\* [requirement, severity, action] and [area, action, priority]
DeprecatedRow(b, parts) ==
    <<OrElse(Trim(PartAt(parts, 0)), Slice(b, 0, 60)),
      parseDepStatus(b),
      OrElse(Trim(Join(Tail(parts), " " \o EmDash \o " ")), b)>>

ParseDeprecated(b) == DeprecatedRow(b, SplitDash(b))

DeploymentRow(b, parts) ==
    <<OrElse(Trim(PartAt(parts, 0)), Slice(b, 0, 50)),
      IF PartAt(parts, 1) # "" THEN parseNature(PartAt(parts, 1)) ELSE parseNature(b),
      OrElse(Trim(PartAt(parts, 2)), OrElse(Trim(PartAt(parts, 1)), ""))>>

ParseDeployment(b) == DeploymentRow(b, SplitDash(b))

ParseSecurity(b) ==
    <<b,
      IF TestI("critical", b) THEN "Critical" ELSE IF TestI("high", b) THEN "High" ELSE "Medium",
      "Verify compliance">>

\* MigrationRow without the fall-backs to the finding's own text
MigrationRowBare(b, parts) ==
    <<Trim(PartAt(parts, 0)), Trim(PartAt(parts, 1)), parsePriority(PartAt(parts, 2))>>

MigrationRow(b, parts) ==
    <<OrElse(Trim(PartAt(parts, 0)), Slice(b, 0, 30)),
      OrElse(Trim(PartAt(parts, 1)), b),
      parsePriority(OrElse(PartAt(parts, 2), b))>>

ParseMigration(b) == MigrationRow(b, SplitDash(b))

\* ------------------------------------------------------------------------
\* buildScopeXml: the markup of one scope section
\* ------------------------------------------------------------------------

W == 8959

DeprecatedCols ==
    <<[label |-> "Item", w |-> 3200], [label |-> "Status", w |-> 1500],
      [label |-> "Notes", w |-> 4259]>>

DeploymentCols ==
    <<[label |-> "Changed Section", w |-> 3136], [label |-> "Nature of Change", w |-> 1800],
      [label |-> "Operational Impact", w |-> 4023]>>

SecurityCols ==
    <<[label |-> "Security Requirement", w |-> 5500], [label |-> "Severity", w |-> 1600],
      [label |-> "Action", w |-> 1859]>>

MigrationCols ==
    <<[label |-> "Area", w |-> 2400], [label |-> "Action Required", w |-> 5159],
      [label |-> "Priority", w |-> 1400]>>

\* an empty section drawn as a table without rows
EmptyScopeTable(scope, st) ==
    xmlH1(scope.label, st) \o xmlTable3(DeprecatedCols, <<>>, st) \o xmlSpacer(st)

EmptyScopeXml(scope, st) ==
    xmlH1(scope.label, st)
        \o xmlBody("No " \o toLowerCase(scope.label) \o " identified in this document.", st)
        \o xmlSpacer(st)

FeatureXml(r, st) == xmlH2(r.title, st) \o xmlBody(r.detail, st) \o xmlSpacer(st)

NewFeaturesXml(bullets, st) ==
    xmlH1("New or Changed Features", st)
        \o xmlBody("The following features and sections were added or significantly updated in this release.", st)
        \o xmlSpacer(st)
        \o Concat([i \in 1..Len(bullets) |-> FeatureXml(ParseNewFeature(bullets[i]), st)])

DeprecatedXml(bullets, st) ==
    LET rows == [i \in 1..Len(bullets) |-> ParseDeprecated(bullets[i])]
    IN  xmlH1("Deprecated or Removed Features", st)
            \o xmlBody("The following items have been removed or superseded in this release.", st)
            \o xmlSpacer(st)
            \o xmlTable3(DeprecatedCols, rows, st) \o xmlSpacer(st)

DeploymentXml(bullets, st) ==
    LET rows == [i \in 1..Len(bullets) |-> ParseDeployment(bullets[i])]
    IN  xmlH1("Deployment Guide Update Notes", st)
            \o xmlBody("The following items represent notable changes that impact how deployments should be executed.", st)
            \o xmlSpacer(st)
            \o xmlTable3(DeploymentCols, rows, st) \o xmlSpacer(st)

SecurityXml(bullets, st) ==
    LET rows == [i \in 1..Len(bullets) |-> ParseSecurity(bullets[i])]
    IN  xmlH1("Security & Compliance Requirements", st)
            \o xmlBody("The following security requirements, credential rules, and compliance mandates were identified.", st)
            \o xmlSpacer(st)
            \o xmlTable3(SecurityCols, rows, st) \o xmlSpacer(st)

BreakingXml(bullets, st) ==
    xmlH1("Breaking Changes", st)
        \o xmlBody("The following changes may break existing deployments if previous documentation was followed. Immediate review is required.", st)
        \o xmlSpacer(st)
        \o Concat([i \in 1..Len(bullets) |-> xmlBullet(bullets[i], st)])
        \o xmlSpacer(st)

MigrationXml(bullets, st) ==
    LET rows == [i \in 1..Len(bullets) |-> ParseMigration(bullets[i])]
    IN  xmlH1("Summary: Key Actions for Deployment Teams", st)
            \o xmlBody("The following actions are required when migrating from the previous release.", st)
            \o xmlSpacer(st)
            \o xmlTable3(MigrationCols, rows, st) \o xmlSpacer(st)

\* the findings of a section as body paragraphs
DefaultScopeBodies(scope, bullets, st) ==
    xmlH1(scope.label, st) \o xmlSpacer(st)
        \o Concat([i \in 1..Len(bullets) |-> xmlBody(bullets[i], st)])
        \o xmlSpacer(st)

DefaultScopeXml(scope, bullets, st) ==
    xmlH1(scope.label, st) \o xmlSpacer(st)
        \o Concat([i \in 1..Len(bullets) |-> xmlBullet(bullets[i], st)])
        \o xmlSpacer(st)

buildScopeXml(scope, bullets, st) ==
    IF Len(bullets) = 0 THEN EmptyScopeXml(scope, st)
    ELSE CASE scope.id = "new_features" -> NewFeaturesXml(bullets, st)
           [] scope.id = "deprecated" -> DeprecatedXml(bullets, st)
           [] scope.id = "deployment_changes" -> DeploymentXml(bullets, st)
           [] scope.id = "security" -> SecurityXml(bullets, st)
           [] scope.id = "breaking_changes" -> BreakingXml(bullets, st)
           [] scope.id = "migration_guide" -> MigrationXml(bullets, st)
           [] OTHER -> DefaultScopeXml(scope, bullets, st)

\* ------------------------------------------------------------------------
\* Cover title and injection bounds
\* ------------------------------------------------------------------------

ParaEnd == "</w:p>"

SectPrOpen == "<w:sectPr"

TitleStyleRef == "w:val=\"Title\""

\* findInjectionBounds taking the first paragraph end of the body, not the last one
\* before the block
findInjectionBoundsFirstPara(docXml) ==
    [prefixEnd |-> IndexOf(docXml, ParaEnd) + Len(ParaEnd),
     suffixStart |-> LastIndexOf(docXml, SectPrOpen)]

findInjectionBounds(docXml) ==
    LET lastSectStart == LastIndexOf(docXml, SectPrOpen)
        lastParaEnd == LastIndexOfFrom(docXml, ParaEnd, lastSectStart)
        prefixEnd == IF lastParaEnd # -1 THEN lastParaEnd + Len(ParaEnd) ELSE lastSectStart
    IN  [prefixEnd |-> prefixEnd, suffixStart |-> lastSectStart]

\* NewTitlePara with the title and the subtitle as typed
NewTitleParaAsTyped(docTitle) ==
    "<w:p><w:pPr><w:pStyle w:val=\"Title\"/></w:pPr>"
        \o "<w:r><w:t xml:space=\"preserve\">" \o xmlEsc(docTitle.title)
        \o (IF docTitle.subtitle # "" THEN " - " \o xmlEsc(docTitle.subtitle) ELSE "")
        \o "</w:t></w:r></w:p>"

NewTitlePara(docTitle) ==
    "<w:p><w:pPr><w:pStyle w:val=\"Title\"/></w:pPr>"
        \o "<w:r><w:t xml:space=\"preserve\">" \o xmlEsc(toUpperCase(docTitle.title))
        \o (IF docTitle.subtitle # "" THEN " - " \o xmlEsc(toUpperCase(docTitle.subtitle)) ELSE "")
        \o "</w:t></w:r></w:p>"

updateCoverTitle(docXml, docTitle) ==
    IF docTitle.title = "" THEN docXml
    ELSE LET titleStyleIdx == IndexOf(docXml, TitleStyleRef)
             paraStart == LastIndexOfFrom(docXml, "<w:p>", titleStyleIdx)
             paraStart2 == LastIndexOfFrom(docXml, "<w:p ", titleStyleIdx)
             pStart == IF paraStart >= paraStart2 THEN paraStart ELSE paraStart2
             pEnd == IndexOfFrom(docXml, ParaEnd, titleStyleIdx) + Len(ParaEnd)
         IN  IF titleStyleIdx = -1 THEN docXml
             ELSE IF pStart = -1 \/ pEnd = -1 THEN docXml
             ELSE Slice(docXml, 0, pStart) \o NewTitlePara(docTitle) \o SliceFrom(docXml, pEnd)

\* scopeList.map(scope => buildScopeXml(scope, resultMap[scope.id] || [], st)).join("")
BulletsOf(resultMap, id) == IF id \in DOMAIN resultMap THEN resultMap[id] ELSE <<>>

\* ContentXml going through the scope list from its end
ContentXmlReversed(scopeList, resultMap, st) ==
    Concat([i \in 1..Len(scopeList) |->
                buildScopeXml(scopeList[Len(scopeList) + 1 - i],
                              BulletsOf(resultMap, scopeList[Len(scopeList) + 1 - i].id), st)])

ContentXml(scopeList, resultMap, st) ==
    Concat([i \in 1..Len(scopeList) |->
                buildScopeXml(scopeList[i], BulletsOf(resultMap, scopeList[i].id), st)])

\* ------------------------------------------------------------------------
\* The template archive and the metadata patches
\* ------------------------------------------------------------------------

DocPath == "word/document.xml"

DocRelsPath == "word/_rels/document.xml.rels"

ContentTypesPath == "[Content_Types].xml"

SettingsRelsPath == "word/_rels/settings.xml.rels"

SettingsPath == "word/settings.xml"

CustomXmlPrefix == "customXml/"

\* The four patterns have the shape  open [^c1]* mid [^c2]* "/>" .
CustomXmlRelPattern ==
    [open |-> "<Relationship", c1 |-> ">", mid |-> "relationships/customXml", c2 |-> ">"]

CustomXmlOverridePattern ==
    [open |-> "<Override", c1 |-> ">", mid |-> "/customXml/", c2 |-> ">"]

DotmRelPattern ==
    [open |-> "<Relationship", c1 |-> ">", mid |-> ".dotm", c2 |-> "/"]

AttachedTemplatePattern ==
    [open |-> "<w:attachedTemplate", c1 |-> "/", mid |-> "", c2 |-> "/"]

\* where a match of [^c2]* "/>" that starts at e ends, or -1 (the star is greedy)
TagCloseEnd(s, e, c2) ==
    LET qs == {q \in e..(Len(s) - 2) :
                  /\ StartsAt(s, "/>", q)
                  /\ \A k \in e..(q - 1) : CharAt(s, k) # c2}
    IN  IF qs = {} THEN -1 ELSE MaxOf(qs) + 2

\* where the match of pat that starts at i ends, or -1 when none starts there
MatchEnd(s, pat, i) ==
    IF ~StartsAt(s, pat.open, i) THEN -1
    ELSE LET a == i + Len(pat.open)
             ms == {m \in a..Len(s) :
                       /\ StartsAt(s, pat.mid, m)
                       /\ \A k \in a..(m - 1) : CharAt(s, k) # pat.c1
                       /\ TagCloseEnd(s, m + Len(pat.mid), pat.c2) # -1}
         IN  IF ms = {} THEN -1 ELSE TagCloseEnd(s, MaxOf(ms) + Len(pat.mid), pat.c2)

\* s.replace(new RegExp(pat, "g"), "")
RECURSIVE RemoveMatches(_, _)
RemoveMatches(s, pat) ==
    LET i == IndexOf(s, pat.open)
    IN  IF i = -1 THEN s
        ELSE LET e == MatchEnd(s, pat, i)
             IN  IF e = -1
                 THEN Slice(s, 0, i + 1) \o RemoveMatches(SliceFrom(s, i + 1), pat)
                 ELSE Slice(s, 0, i) \o RemoveMatches(SliceFrom(s, e), pat)

\* zip.files[path] is set / zip.file(path, text) / delete zip.files[k]
HasPart(files, path) == path \in DOMAIN files

PutPart(files, path, text) ==
    [q \in DOMAIN files \cup {path} |-> IF q = path THEN text ELSE files[q]]

\* IsCustomXmlKey taking every path that names something custom
IsCustomKey(k) == Includes(toLowerCase(k), "custom")

\* Object.keys(zip.files).filter(k => k.startsWith("customXml/")).forEach(delete)
IsCustomXmlKey(k) == StartsWith(k, CustomXmlPrefix)

\* StripCustomXml deleting nothing
KeepAllParts(files) == files

StripCustomXml(files) == [q \in {k \in DOMAIN files : ~IsCustomXmlKey(k)} |-> files[q]]

\* (docTitle?.title || docName || "analysis").replace(/[^a-z0-9]/gi, "_").slice(0, 40)
AlphaNum == DOMAIN ToUpper \cup DOMAIN ToLower \cup {"0", "1", "2", "3", "4", "5", "6", "7", "8", "9"}

RECURSIVE Sanitize(_)
Sanitize(s) ==
    IF Len(s) = 0 THEN ""
    ELSE IF Len(s) = 1 THEN (IF s \in AlphaNum THEN s ELSE "_")
    ELSE Sanitize(SubSeq(s, 1, Len(s) \div 2)) \o Sanitize(SubSeq(s, Len(s) \div 2 + 1, Len(s)))

SafeName(docTitle, docName) ==
    Slice(Sanitize(OrElse(docTitle.title, OrElse(docName, "analysis"))), 0, 40)

\* ------------------------------------------------------------------------
\* Inputs: template bodies, archives, scopes, findings, titles
\* ------------------------------------------------------------------------

MaxParts == 2

MaxScopes == 2

MaxFindings == 2

SeqsUpTo(S, n) == UNION {[1..k -> S] : k \in 0..n}

\* What a template body is written from.  "sect" is the body-level page-layout
\* block, which a body carries last or not at all.
BodyPieces == {"para", "title", "titleAttr", "emptyPara", "table", "sectBreak"}

PieceXml(p) ==
    CASE p = "para" -> "<w:p><w:r><w:t>Intro</w:t></w:r></w:p>"
      [] p = "title" ->
            "<w:p><w:pPr><w:pStyle w:val=\"Title\"/></w:pPr><w:r><w:t>REPORT</w:t></w:r></w:p>"
      [] p = "titleAttr" ->
            "<w:p w:rsidR=\"00A1\"><w:pPr><w:pStyle w:val=\"Title\"/><w:jc w:val=\"center\"/></w:pPr>"
                \o "<w:r><w:t>COVER</w:t></w:r></w:p>"
      [] p = "emptyPara" -> "<w:p/>"
      [] p = "table" -> "<w:tbl><w:tr><w:tc><w:p><w:r><w:t>c</w:t></w:r></w:p></w:tc></w:tr></w:tbl>"
      [] p = "sectBreak" -> "<w:p><w:pPr><w:sectPr><w:type w:val=\"nextPage\"/></w:sectPr></w:pPr></w:p>"
      [] p = "sect" -> "<w:sectPr><w:pgSz w:w=\"11904\" w:h=\"16839\"/></w:sectPr>"

BodyOpen == "<w:document><w:body>"

BodyClose == "</w:body></w:document>"

BodyXml(parts) ==
    BodyOpen \o Concat([i \in 1..Len(parts) |-> PieceXml(parts[i])]) \o BodyClose

BodyPartLists ==
    {ps \o tail : ps \in SeqsUpTo(BodyPieces, MaxParts), tail \in {<<>>, <<"sect">>}}

\* the body of the built-in template: title, subtitle, an empty paragraph, page layout
DefaultBodyParts == <<"title", "para", "emptyPara", "sect">>

RelsOpen == "<Relationships xmlns=\"http://s.o/package/2006/relationships\">"

RelStyles == "<Relationship Id=\"rId3\" Type=\"http://s.o/2006/relationships/styles\" Target=\"styles.xml\"/>"

RelCustomXml ==
    "<Relationship Id=\"rId1\" Type=\"http://s.o/2006/relationships/customXml\" Target=\"../customXml/item1.xml\"/>"

RelDotm ==
    "<Relationship Id=\"rId1\" Type=\"http://s.o/2006/relationships/attachedTemplate\""
        \o " Target=\"file:///C:/T/Corp.dotm\" TargetMode=\"External\"/>"

RelsClose == "</Relationships>"

TypesOpen == "<Types xmlns=\"http://s.o/package/2006/content-types\"><Default Extension=\"xml\" ContentType=\"application/xml\"/>"

OverrideCustomXml ==
    "<Override PartName=\"/customXml/itemProps1.xml\" ContentType=\"application/vnd.customXmlProperties+xml\"/>"

OverrideDoc == "<Override PartName=\"/word/document.xml\" ContentType=\"application/vnd.main+xml\"/>"

OverrideCustomProps ==
    "<Override PartName=\"/docProps/custom.xml\" ContentType=\"application/vnd.custom-properties+xml\"/>"

TypesClose == "</Types>"

SettingsOpen == "<w:settings><w:zoom w:percent=\"100\"/>"

AttachedTemplate == "<w:attachedTemplate r:id=\"rId1\"/>"

SettingsClose == "<w:defaultTabStop w:val=\"720\"/></w:settings>"

\* the texts an auxiliary part may hold: "none" is the part being absent
PartVariants == {"none", "plain", "tagged"}

DocRelsText(v) == RelsOpen \o RelStyles \o (IF v = "tagged" THEN RelCustomXml ELSE "") \o RelsClose

ContentTypesText(v) ==
    TypesOpen \o (IF v = "tagged" THEN OverrideCustomXml ELSE "") \o OverrideDoc
        \o OverrideCustomProps \o TypesClose

SettingsRelsText(v) == RelsOpen \o (IF v = "tagged" THEN RelDotm ELSE "") \o RelsClose

SettingsText(v) == SettingsOpen \o (IF v = "tagged" THEN AttachedTemplate ELSE "") \o SettingsClose

\* parts no export step knows: they pass through
OtherParts ==
    [q \in {"word/styles.xml", "docProps/custom.xml"} |->
        IF q = "word/styles.xml" THEN "<w:styles/>" ELSE "<Properties/>"]

CustomXmlParts ==
    [q \in {"customXml/item1.xml", "customXml/itemProps1.xml", "customXml/_rels/item1.xml.rels"} |->
        IF q = "customXml/item1.xml" THEN "<root/>"
        ELSE IF q = "customXml/itemProps1.xml" THEN "<ds:datastoreItem/>"
        ELSE RelsOpen \o RelsClose]

Merge(f, g) == [q \in DOMAIN f \cup DOMAIN g |-> IF q \in DOMAIN g THEN g[q] ELSE f[q]]

Single(path, text) == [q \in {path} |-> text]

NoFiles == [q \in {} |-> ""]

\* an archive: with or without custom XML, each auxiliary part in one variant,
\* with or without the main document part
Archive(custom, rels, ct, srels, settings, parts, hasDoc) ==
    Merge(OtherParts,
    Merge(IF custom THEN CustomXmlParts ELSE NoFiles,
    Merge(IF rels = "none" THEN NoFiles ELSE Single(DocRelsPath, DocRelsText(rels)),
    Merge(IF ct = "none" THEN NoFiles ELSE Single(ContentTypesPath, ContentTypesText(ct)),
    Merge(IF srels = "none" THEN NoFiles ELSE Single(SettingsRelsPath, SettingsRelsText(srels)),
    Merge(IF settings = "none" THEN NoFiles ELSE Single(SettingsPath, SettingsText(settings)),
          IF hasDoc THEN Single(DocPath, BodyXml(parts)) ELSE NoFiles))))))

\* template bytes: an archive, or bytes JSZip cannot open
ZipBuffer(files) == [zip |-> TRUE, files |-> files]

NotAZip == [zip |-> FALSE, files |-> NoFiles]

BodyOnly(parts) == ZipBuffer(Merge(OtherParts, Single(DocPath, BodyXml(parts))))

ArchiveBuffers ==
    {ZipBuffer(Archive(cx, r, c, sr, se, DefaultBodyParts, d)) :
        cx \in BOOLEAN, r \in PartVariants, c \in PartVariants,
        sr \in PartVariants, se \in PartVariants, d \in BOOLEAN}

\* scopes: the built-in catalogue and one user-defined scope
ANALYSIS_SCOPES ==
    <<[id |-> "new_features", label |-> "New & Changed Features"],
      [id |-> "deprecated", label |-> "Deprecated Features"],
      [id |-> "deployment_changes", label |-> "Deployment Changes"],
      [id |-> "security", label |-> "Security & Compliance"],
      [id |-> "breaking_changes", label |-> "Breaking Changes"],
      [id |-> "migration_guide", label |-> "Migration Guide"]>>

CustomScope == [id |-> "custom_1700000000000", label |-> "Licensing <cost>"]

AllScopes == ANALYSIS_SCOPES \o <<CustomScope>>

ScopeSet == {AllScopes[i] : i \in 1..Len(AllScopes)}

ScopeLists == SeqsUpTo(ScopeSet, MaxScopes)

ScopeIndex(id) == CHOOSE i \in 1..Len(AllScopes) : AllScopes[i].id = id

Findings == {"Alpha module added", "Beta <tool> retired"}

FindingLists == SeqsUpTo(Findings, MaxFindings)

\* the finding lists in a fixed order, so that a result map can be dealt from them
RECURSIVE Enumerate(_)
Enumerate(S) ==
    IF S = {} THEN <<>>
    ELSE LET x == CHOOSE y \in S : TRUE IN <<x>> \o Enumerate(S \ {x})

FindingListSeq == Enumerate(FindingLists)

\* Result map number r: scope i holds list number i + r * (the number of scopes) of
\* the cycle "no entry, list 1, list 2, ...", so one map gives the scopes different
\* lists and the maps together give the lists and the missing entry.
ResultMapNo(r) ==
    LET n == Len(FindingListSeq) + 1
        slot(i) == (i + r * Len(AllScopes)) % n
        ids == {AllScopes[i].id : i \in {j \in 1..Len(AllScopes) : slot(j) # 0}}
    IN  [id \in ids |-> FindingListSeq[slot(ScopeIndex(id))]]

Titles ==
    {[title |-> "", subtitle |-> "", revision |-> ""],
     [title |-> "", subtitle |-> "Guide", revision |-> ""],
     [title |-> "Dell R&D 1.x", subtitle |-> "", revision |-> "A03"],
     [title |-> "Dell R&D 1.x", subtitle |-> "Guide <a>", revision |-> "A03"]}

UploadedStyles ==
    [h1 |-> "Titre1", h2 |-> "Titre2", body |-> "Corps", bullet |-> "Puce",
     tableHeader |-> "EnTete", tableText |-> "TexteTab", tableGrid |-> "Grille",
     fill |-> "AA0011"]

\* ------------------------------------------------------------------------
\* detectTemplateStyles: the style map read from an uploaded template
\* ------------------------------------------------------------------------

StylesPath == "word/styles.xml"

Digits == {"0", "1", "2", "3", "4", "5", "6", "7", "8", "9"}

HexDigits == Digits \cup {"a", "b", "c", "d", "e", "f", "A", "B", "C", "D", "E", "F"}

\* \b after the character before index i: the character at i is no word character
WordEndsAt(s, i) == CharAt(s, i) \notin (AlphaNum \cup {"_"})

\* s.indexOf(pat, from) for from >= 0, looked for one stretch of s after the other
SearchWindow == 24

RECURSIVE SearchFrom(_, _, _)
SearchIn(s, pat, from, hits) ==
    IF hits # {} THEN MinOf(hits) ELSE SearchFrom(s, pat, from + SearchWindow)

SearchFrom(s, pat, from) ==
    IF from + Len(pat) > Len(s) THEN -1
    ELSE SearchIn(s, pat, from,
                  {i \in from..(from + SearchWindow - 1) : StartsAt(s, pat, i)})

\* the end of the tag opening at i: the index of its ">", the end of s when none
TagEndAt(s, g) == IF g = -1 THEN Len(s) ELSE g

TagEnd(s, i) == TagEndAt(s, SearchFrom(s, ">", i))

\* Where the attribute of '<tag\b[^>]*attr="([^"]+)"' is found for a tag opening at
\* i: the places k of attr=" inside the tag, with a value of one character or more
\* closed by a quote.  [^>]* is greedy, so the last of them is the one taken.
AttrPlacesUpTo(s, tag, attr, i, end) ==
    {k \in (i + Len(tag))..(end - Len(attr)) :
        /\ StartsAt(s, attr, k)
        /\ SearchFrom(s, "\"", k + Len(attr)) > k + Len(attr)}

AttrPlaces(s, tag, attr, i) == AttrPlacesUpTo(s, tag, attr, i, TagEnd(s, i))

\* the leftmost opening of the tag at or after from, or -1
RECURSIVE TagFrom(_, _, _)
TagAt(s, tag, i) ==
    IF i = -1 \/ WordEndsAt(s, i + Len(tag)) THEN i ELSE TagFrom(s, tag, i + 1)

TagFrom(s, tag, from) == TagAt(s, tag, SearchFrom(s, tag, from))

\* the value of the attribute found at k, and the index of its closing quote
AttrValueEnd(s, attr, k) == SearchFrom(s, "\"", k + Len(attr))

AttrValue(s, attr, k) == Slice(s, k + Len(attr), AttrValueEnd(s, attr, k))

StyleOpen == "<w:style"

StyleIdAttr == "w:styleId=\""

StyleClose == "</w:style>"

NameOpen == "<w:name"

ValAttr == "w:val=\""

\* One match of the style pattern, the attribute at k: '[^>]*>' runs to the first
\* ">" after the identifier and '([\s\S]*?)<\/w:style>' to the first closing tag
\* after that.  ok is FALSE when either is missing.
StyleMatchFrom(xml, k, g, e) ==
    [ok |-> e # -1,
     id |-> AttrValue(xml, StyleIdAttr, k),
     body |-> IF e = -1 THEN "" ELSE Slice(xml, g + 1, e),
     end |-> e + Len(StyleClose)]

StyleMatchAfter(xml, k, g) ==
    StyleMatchFrom(xml, k, g, IF g = -1 THEN -1 ELSE SearchFrom(xml, StyleClose, g + 1))

StyleMatchAt(xml, k) ==
    StyleMatchAfter(xml, k, SearchFrom(xml, ">", AttrValueEnd(xml, StyleIdAttr, k) + 1))

NoMatch == [ok |-> FALSE, id |-> "", body |-> "", end |-> -1]

\* the matches the pattern has at the tag opening i: the one with the last
\* attribute place is the one the greedy pattern finds
StyleMatchesAt(xml, i) ==
    {k \in AttrPlaces(xml, StyleOpen, StyleIdAttr, i) : StyleMatchAt(xml, k).ok}

\* re.exec(xml) with lastIndex = from: the leftmost match at or after from
RECURSIVE NextStyle(_, _)
NextStyleAmong(xml, i, places) ==
    IF places # {} THEN StyleMatchAt(xml, MaxOf(places)) ELSE NextStyle(xml, i + 1)

NextStyleFrom(xml, i) ==
    IF i = -1 THEN NoMatch ELSE NextStyleAmong(xml, i, StyleMatchesAt(xml, i))

NextStyle(xml, from) == NextStyleFrom(xml, TagFrom(xml, StyleOpen, from))

\* (new RegExp('<w:name\b[^>]*w:val="([^"]+)"').exec(body) || [])[1] || ""
RECURSIVE StyleNameFrom(_, _)
StyleNameAmong(body, i, places) ==
    IF places # {} THEN AttrValue(body, ValAttr, MaxOf(places)) ELSE StyleNameFrom(body, i + 1)

StyleNameAt(body, i) ==
    IF i = -1 THEN "" ELSE StyleNameAmong(body, i, AttrPlaces(body, NameOpen, ValAttr, i))

StyleNameFrom(body, from) == StyleNameAt(body, TagFrom(body, NameOpen, from))

StyleName(body) == StyleNameFrom(body, 0)

\* map[id] = name on a JavaScript object, kept here as the list of its properties in
\* the order they were created: a property that is there keeps its place
MapSet(map, id, name) ==
    IF \E n \in 1..Len(map) : map[n].id = id
    THEN [n \in 1..Len(map) |-> IF map[n].id = id THEN [id |-> id, name |-> name] ELSE map[n]]
    ELSE Append(map, [id |-> id, name |-> name])

\* while ((m = re.exec(xml)) !== null) map[m[1]] = nm.toLowerCase().trim()
RECURSIVE ScanStyles(_, _, _)
ScanMatch(xml, m, map) ==
    IF ~m.ok THEN map
    ELSE ScanStyles(xml, m.end, MapSet(map, m.id, Trim(toLowerCase(StyleName(m.body)))))

ScanStyles(xml, from, map) == ScanMatch(xml, NextStyle(xml, from), map)

\* A property name that is an array index (a canonical number below 2^32 - 1; up to
\* nine digits here): Object.entries lists these first, in ascending order.
IsArrayIndex(id) ==
    /\ Len(id) \in 1..9
    /\ \A n \in 1..Len(id) : SubSeq(id, n, n) \in Digits
    /\ (Len(id) > 1 => SubSeq(id, 1, 1) # "0")

DigitValue ==
    [d \in Digits |->
        CASE d = "0" -> 0 [] d = "1" -> 1 [] d = "2" -> 2 [] d = "3" -> 3 [] d = "4" -> 4
          [] d = "5" -> 5 [] d = "6" -> 6 [] d = "7" -> 7 [] d = "8" -> 8 [] d = "9" -> 9]

RECURSIVE NumberOf(_)
NumberOf(id) ==
    IF Len(id) = 0 THEN 0
    ELSE 10 * NumberOf(SubSeq(id, 1, Len(id) - 1)) + DigitValue[SubSeq(id, Len(id), Len(id))]

\* the entries at the given places, by ascending number of their names
RECURSIVE ByNumber(_, _)
ByNumber(map, places) ==
    IF places = {} THEN <<>>
    ELSE LET n == CHOOSE x \in places :
                    \A y \in places : NumberOf(map[x].id) <= NumberOf(map[y].id)
         IN  <<map[n]>> \o ByNumber(map, places \ {n})

NamedByText(e) == ~IsArrayIndex(e.id)

\* Object.entries(map): the array-index names by their number, then the other names
\* in the order they were created
ObjectEntries(map) ==
    ByNumber(map, {n \in 1..Len(map) : IsArrayIndex(map[n].id)}) \o SelectSeq(map, NamedByText)

\* A match rule of pick: a string the name must equal, or a pattern
\* '^a\s*b' (whole: '^a\s*b$'), b possibly empty.
Exact(text) == [exact |-> TRUE, a |-> text, b |-> "", whole |-> TRUE]

Pattern(a, b, whole) == [exact |-> FALSE, a |-> a, b |-> b, whole |-> whole]

\* the index of the first character of s at or after i that is no white space
SkipSpace(s, i) == MinOf({j \in i..Len(s) : CharAt(s, j) \notin WhiteSpace})

\* typeof p === "string" ? name === p : p.test(name); '\s*' is greedy and takes no
\* part of b, b starting with no white space
RuleMatches(p, name) ==
    IF p.exact THEN name = p.a
    ELSE /\ StartsWith(name, p.a)
         /\ StartsAt(name, p.b, SkipSpace(name, Len(p.a)))
         /\ (p.whole => SkipSpace(name, Len(p.a)) + Len(p.b) = Len(name))

\* pick over the rules first: the first rule some entry matches decides
RECURSIVE PickByRule(_, _)
PickByRule(entries, pats) ==
    IF Len(pats) = 0 THEN ""
    ELSE LET hits == {n \in 1..Len(entries) : RuleMatches(pats[1], entries[n].name)}
         IN  IF hits # {} THEN entries[MinOf(hits)].id ELSE PickByRule(entries, Tail(pats))

\* pick(...pats): for (const [id, name] of entries) for (const p of pats)
\* if (matches) return id; return null -- "" standing for null
pick(entries, pats) ==
    LET hits == {n \in 1..Len(entries) :
                    \E r \in 1..Len(pats) : RuleMatches(pats[r], entries[n].name)}
    IN  IF hits = {} THEN "" ELSE entries[MinOf(hits)].id

\* the rules of each role, in the order they are passed to pick
RoleRules ==
    [h1 |-> <<Exact("heading 1"), Pattern("heading", "1", TRUE)>>,
     h2 |-> <<Exact("heading 2"), Pattern("heading", "2", TRUE)>>,
     body |-> <<Exact("body text"), Exact("bodytext"), Pattern("body", "", FALSE)>>,
     bullet |-> <<Exact("list bullet"), Pattern("list", "bullet", FALSE)>>,
     tableHeader |-> <<Exact("table header"), Pattern("tableheader", "", FALSE),
                       Pattern("table", "head", FALSE)>>,
     tableText |-> <<Exact("table text"), Pattern("tabletext", "", FALSE),
                     Pattern("table", "text", FALSE)>>,
     tableGrid |-> <<Exact("table grid"), Pattern("table", "grid", FALSE),
                     Exact("normal table")>>]

StyleRoles == DOMAIN RoleRules

\* a role left as pick returns it, with no default behind it
RoleStyleBare(entries, role) == pick(entries, RoleRules[role])

\* pick(...) || DEFAULT_STYLES[role]
RoleStyle(entries, role) == OrElse(pick(entries, RoleRules[role]), DEFAULT_STYLES[role])

FillAttr == "w:fill=\""

\* d.match(new RegExp('w:fill="([0-9A-Fa-f]{6})"')): where the leftmost match starts
RECURSIVE FillFrom(_, _)
FillAt(d, i) ==
    IF i = -1 THEN -1
    ELSE IF /\ \A j \in 0..5 : CharAt(d, i + Len(FillAttr) + j) \in HexDigits
            /\ CharAt(d, i + Len(FillAttr) + 6) = "\""
    THEN i
    ELSE FillFrom(d, i + 1)

FillFrom(d, from) == FillAt(d, SearchFrom(d, FillAttr, from))

FillOf(d, i) ==
    IF i = -1 THEN DEFAULT_STYLES.fill
    ELSE toUpperCase(Slice(d, i + Len(FillAttr), i + Len(FillAttr) + 6))

DetectFill(files) ==
    IF HasPart(files, DocPath) THEN FillOf(files[DocPath], FillFrom(files[DocPath], 0))
    ELSE DEFAULT_STYLES.fill

\* the style map from the entries of the catalogue and the fill
StyleMapOf(entries, fill) ==
    [role \in StyleRoles \cup {"fill"} |-> IF role = "fill" THEN fill ELSE RoleStyle(entries, role)]

\* detectTemplateStyles on the parts of an archive
detectTemplateStyles(files) ==
    IF ~HasPart(files, StylesPath) THEN DEFAULT_STYLES
    ELSE StyleMapOf(ObjectEntries(ScanStyles(files[StylesPath], 0, <<>>)), DetectFill(files))

\* ------------------------------------------------------------------------
\* Uploaded templates: the catalogues and bodies they are written from
\* ------------------------------------------------------------------------

MaxStyles == 2

\* what a style catalogue is written from: the identifier and the display name of a
\* style block, or markup that is no complete block
StylePieces ==
    [heading1 |-> [id |-> "Heading1", name |-> "heading 1", block |-> TRUE],
     titre1 |-> [id |-> "Titre1", name |-> "Heading  1", block |-> TRUE],
     body2 |-> [id |-> "BodyText2", name |-> "Body Text 2", block |-> TRUE],
     corps |-> [id |-> "Corps", name |-> " Body Text ", block |-> TRUE],
     num10 |-> [id |-> "10", name |-> "Table Grid", block |-> TRUE],
     num9 |-> [id |-> "9", name |-> "Table Grid 2", block |-> TRUE],
     normalTable |-> [id |-> "a1", name |-> "Normal Table", block |-> TRUE],
     again |-> [id |-> "Heading1", name |-> "List Bullet", block |-> TRUE],
     unnamed |-> [id |-> "a2", name |-> "", block |-> TRUE],
     selfClosed |-> [id |-> "Open", name |-> "", block |-> FALSE],
     garbage |-> [id |-> "", name |-> "heading 2", block |-> FALSE]]

\* a style block; the one with no name is based on a style, whose name is not its own
StyleXml(p) ==
    "<w:style w:styleId=\"" \o p.id \o "\">"
        \o (IF p.name = "" THEN "<w:basedOn w:val=\"heading 2\"/>"
            ELSE "<w:name w:val=\"" \o p.name \o "\"/>")
        \o "</w:style>"

StylePieceXml(piece) ==
    CASE piece = "selfClosed" -> "<w:style w:styleId=\"Open\"/>"
      [] piece = "garbage" -> "<w:style w:styleId=\"\"><w:name w:val=\"heading 2\"/> <w:style"
      [] OTHER -> StyleXml(StylePieces[piece])

CatalogueXml(pieces) ==
    "<w:styles>" \o Concat([n \in 1..Len(pieces) |-> StylePieceXml(pieces[n])])
        \o "</w:styles>"

Catalogues == SeqsUpTo(DOMAIN StylePieces, MaxStyles)

\* bodies with no fill, with a fill in lower case, and with a fill after one that is
\* no colour and one that is too long
FillBodies ==
    [none |-> "<w:document><w:body/></w:document>",
     lower |-> "<w:document><w:shd w:val=\"clear\" w:fill=\"a0b1c2\"/></w:document>",
     later |-> "<w:document><w:shd w:fill=\"auto\"/><w:shd w:fill=\"1234567\"/>"
                  \o "<w:shd w:fill=\"00FF7f\"/></w:document>"]

\* an uploaded archive: a catalogue written from pieces (NoCatalogue: no styles part,
\* EmptyCatalogue: a styles part with no text) and a body ("absent": no document part)
NoCatalogue == <<"absent">>

EmptyCatalogue == <<"empty">>

UploadFiles(catalogue, body) ==
    Merge(IF catalogue = NoCatalogue THEN NoFiles
          ELSE Single(StylesPath,
                      IF catalogue = EmptyCatalogue THEN "" ELSE CatalogueXml(catalogue)),
          IF body = "absent" THEN NoFiles ELSE Single(DocPath, FillBodies[body]))

UploadCatalogues == Catalogues \cup {NoCatalogue, EmptyCatalogue}

UploadBodies == DOMAIN FillBodies \cup {"absent"}

\* ------------------------------------------------------------------------
\* exportToDocx (src/App.jsx): the sections built with the docx library
\* ------------------------------------------------------------------------

\* Here the dash patterns are regular-expression literals, /\s[...]\s/: "\s" is white
\* space.

Hyphen == "-"

\* Where the dashes of /\s+[dashes]{1,n}\s+/ end when they start at d: the index after
\* the last of one to n dashes that white space follows, or -1
DashRunEnd(b, d, dashes, n) ==
    FirstOf({e \in (d + 1)..(d + n) :
                /\ \A j \in d..(e - 1) : CharAt(b, j) \in dashes
                /\ CharAt(b, e) \in WhiteSpace})

\* where the leftmost match of /\s+[dashes]{1,n}\s+/ starts in b, or -1
SpacedDashStart(b, dashes, n) ==
    FirstOf({i \in 0..(Len(b) - 3) :
                /\ CharAt(b, i) \in WhiteSpace
                /\ DashRunEnd(b, SkipSpace(b, i), dashes, n) # -1})

\* b.split(/\s+[dashes]{1,n}\s+/), the leftmost match starting at i
RECURSIVE SplitSpaced(_, _, _)
SplitSpacedAt(b, dashes, n, i) ==
    IF i = -1 THEN <<b>>
    ELSE <<Slice(b, 0, i)>>
            \o SplitSpaced(SliceFrom(b, SkipSpace(b, DashRunEnd(b, SkipSpace(b, i), dashes, n))),
                           dashes, n)

SplitSpaced(b, dashes, n) == SplitSpacedAt(b, dashes, n, SpacedDashStart(b, dashes, n))

\* b.search(/\s[dash]\s/)
SearchSpacedDash(b) ==
    FirstOf({i \in 0..(Len(b) - 3) :
                /\ CharAt(b, i) \in WhiteSpace
                /\ CharAt(b, i + 1) \in Dashes
                /\ CharAt(b, i + 2) \in WhiteSpace})

\* t.replace(/^\s*[dash]\s*/, "")
StripSpacedDash(t) ==
    IF CharAt(t, SkipSpace(t, 0)) \in Dashes
    THEN SliceFrom(t, SkipSpace(t, SkipSpace(t, 0) + 1))
    ELSE t

\* /w1|w2|.../i.test(text)
TestAny(words, text) == \E w \in words : TestI(w, text)

\* parts[i] ? parts[i].trim() : other -- a part of white space only is truthy
TrimOr(part, other) == IF part # "" THEN Trim(part) ELSE other

DocxW == 9360

\* the paragraphs and tables of the document body
Para(kind, text) == [kind |-> kind, text |-> text, widths |-> <<>>, width |-> 0, rows |-> <<>>]

H1(num, text) == Para("H1", ToString(num) \o ".  " \o text)

H2(num, sub, text) == Para("H2", ToString(num) \o "." \o ToString(sub) \o "  " \o text)

bodyPara(text) == Para("body", text)

bul(text) == Para("bullet", text)

spacer == Para("spacer", "")

rule == Para("rule", "")

\* new Table({ width: W, columnWidths, rows: [header row, ...data rows] })
Table(widths, header, rows) ==
    [kind |-> "table", text |-> "", widths |-> widths, width |-> DocxW,
     rows |-> <<header>> \o rows]

SCOPE_IDS ==
    ("New & Changed Features" :> "new_features")
        @@ ("Deprecated Features" :> "deprecated")
        @@ ("Deployment Changes" :> "deployment_changes")
        @@ ("Security & Compliance" :> "security")
        @@ ("Breaking Changes" :> "breaking_changes")
        @@ ("Migration Guide" :> "migration_guide")

\* SCOPE_IDS[scope.label] || "default"
SectionId(scope) ==
    IF scope.label \in DOMAIN SCOPE_IDS THEN SCOPE_IDS[scope.label] ELSE "default"

SECTION_TITLES ==
    [new_features |-> "New or Changed Features",
     deprecated |-> "Deprecated or Removed Features",
     deployment_changes |-> "Deployment Guide Update Notes",
     security |-> "Security & Compliance Requirements",
     breaking_changes |-> "Breaking Changes",
     migration_guide |-> "Migration Action Plan"]

SECTION_INTRO ==
    [new_features |-> "The following features and sections were added or significantly updated in this release compared to the previous version.",
     deprecated |-> "The following items have been removed or superseded in this release.",
     deployment_changes |-> "The following items represent notable changes that impact how deployments should be executed.",
     security |-> "The following security requirements and compliance changes were identified in this release.",
     breaking_changes |-> "The following changes will break existing deployments or integrations without remediation. Immediate review is required before upgrading.",
     migration_guide |-> "The following actions are required when upgrading from the previous release. Complete each step in sequence."]

\* the title and the detail of a feature, from the place of the colon and of the dash
DocxFeatureAt(b, colonIdx, dashPos) ==
    IF colonIdx > 5 /\ colonIdx < 80
    THEN [title |-> Trim(Slice(b, 0, colonIdx)), detail |-> Trim(SliceFrom(b, colonIdx + 1))]
    ELSE [title |-> IF dashPos > 10 THEN Trim(Slice(b, 0, dashPos)) ELSE Trim(Slice(b, 0, 60)),
          detail |-> IF dashPos > 10 THEN StripSpacedDash(SliceFrom(b, dashPos)) ELSE ""]

DocxFeature(b) == DocxFeatureAt(b, IndexOf(b, ":"), SearchSpacedDash(b))

FeatureParas(secNum, i, r) == <<H2(secNum, i, r.title), bodyPara(r.detail), spacer>>

RECURSIVE Flat(_)
Flat(lists) == IF Len(lists) = 0 THEN <<>> ELSE lists[1] \o Flat(Tail(lists))

buildNewFeatures(secNum, bullets) ==
    IF Len(bullets) = 0
    THEN <<bodyPara("No new or changed features identified in this release.")>>
    ELSE Flat([i \in 1..Len(bullets) |-> FeatureParas(secNum, i, DocxFeature(bullets[i]))])

DocxNature(b) ==
    IF TestI("new section", b) THEN "New section added"
    ELSE IF TestI("fully replaced", b) THEN "Fully replaced"
    ELSE IF TestI("removed", b) THEN "Removed"
    ELSE "Updated"

DocxDeploymentRow(b, parts) ==
    <<TrimOr(PartAt(parts, 0), Slice(b, 0, 50)),
      TrimOr(PartAt(parts, 1), DocxNature(b)),
      TrimOr(PartAt(parts, 2), "Review and update runbooks accordingly.")>>

DocxDeployment(b) == DocxDeploymentRow(b, SplitSpaced(b, Dashes \cup {Hyphen}, 2))

buildDeployment(bullets) ==
    IF Len(bullets) = 0
    THEN <<bodyPara("No deployment changes identified in this release.")>>
    ELSE <<Table(<<3600, 1800, 3960>>,
                 <<"Changed Section", "Nature of Change", "Operational Impact">>,
                 [i \in 1..Len(bullets) |-> DocxDeployment(bullets[i])])>>

DocxStatus(b) ==
    IF TestI("prohibit", b) THEN "Prohibited"
    ELSE IF TestAny({"replac", "supersed"}, b) THEN "Replaced"
    ELSE IF TestI("merg", b) THEN "Merged/Superseded"
    ELSE IF TestI("remov", b) THEN "Removed"
    ELSE "Deprecated"

DocxDeprecatedRow(b, parts) ==
    <<TrimOr(PartAt(parts, 0), Slice(b, 0, 50)),
      DocxStatus(b),
      OrElse(Trim(Join(Tail(parts), " " \o EmDash \o " ")), b)>>

DocxDeprecated(b) == DocxDeprecatedRow(b, SplitSpaced(b, Dashes, 1))

buildDeprecated(bullets) ==
    IF Len(bullets) = 0
    THEN <<bodyPara("No deprecated or removed items identified in this release.")>>
    ELSE <<Table(<<2880, 1800, 4680>>, <<"Item", "Status", "Notes">>,
                 [i \in 1..Len(bullets) |-> DocxDeprecated(bullets[i])])>>

DocxSeverity(b) ==
    IF TestAny({"must", "never", "cannot", "critical", "prohibit"}, b) THEN "Critical"
    ELSE IF TestAny({"required", "mandatory"}, b) THEN "High"
    ELSE "Medium"

\* the third cell is the ballot box U+2610, written "[]"
DocxSecurity(b) == <<b, DocxSeverity(b), "[]">>

buildSecurity(bullets) ==
    IF Len(bullets) = 0
    THEN <<bodyPara("No security findings identified in this release.")>>
    ELSE <<Table(<<6120, 1440, 1800>>, <<"Security Requirement", "Severity", "Verified">>,
                 [i \in 1..Len(bullets) |-> DocxSecurity(bullets[i])])>>

DocxBreaking(b) ==
    <<b, IF TestAny({"remov", "no longer", "replac"}, b) THEN "Breaking" ELSE "High",
      "Review and remediate before upgrade.">>

\* the warning sign U+26A0 is written "!"
buildBreaking(bullets) ==
    IF Len(bullets) = 0
    THEN <<bodyPara("No breaking changes identified in this release.")>>
    ELSE <<bodyPara("!  All breaking changes require immediate review before upgrading any environment."),
           Table(<<5040, 1440, 2880>>, <<"Breaking Change", "Impact", "Action Required">>,
                 [i \in 1..Len(bullets) |-> DocxBreaking(bullets[i])])>>

DocxPriority(priRaw, b) ==
    IF TestI("critical", priRaw) \/ TestAny({"critical", "must", "cannot", "never"}, b)
    THEN "Critical"
    ELSE IF TestI("high", priRaw) \/ TestAny({"required", "before", "ensure"}, b) THEN "High"
    ELSE "Medium"

DocxMigrationRow(b, mparts) ==
    <<TrimOr(PartAt(mparts, 0), Slice(b, 0, 30)),
      TrimOr(PartAt(mparts, 1), b),
      DocxPriority(TrimOr(PartAt(mparts, 2), ""), b)>>

DocxMigration(b) == DocxMigrationRow(b, SplitSpaced(b, Dashes, 1))

buildMigration(bullets) ==
    IF Len(bullets) = 0
    THEN <<bodyPara("No migration steps identified in this release.")>>
    ELSE <<Table(<<3240, 4680, 1440>>, <<"Area", "Action Required", "Priority">>,
                 [i \in 1..Len(bullets) |-> DocxMigration(bullets[i])])>>

buildSectionOf(id, bullets, secNum) ==
    CASE id = "new_features" -> buildNewFeatures(secNum, bullets)
      [] id = "deployment_changes" -> buildDeployment(bullets)
      [] id = "deprecated" -> buildDeprecated(bullets)
      [] id = "security" -> buildSecurity(bullets)
      [] id = "breaking_changes" -> buildBreaking(bullets)
      [] id = "migration_guide" -> buildMigration(bullets)
      [] OTHER -> IF Len(bullets) = 0
                  THEN <<bodyPara("No findings identified for this scope.")>>
                  ELSE [i \in 1..Len(bullets) |-> bul(bullets[i])]

buildSection(scope, bullets, secNum) == buildSectionOf(SectionId(scope), bullets, secNum)

\* what scopeList.forEach pushes for the scope at idx (0-based)
SectionOf(scopes, results, idx, id) ==
    <<H1(idx + 1, IF id = "default" THEN scopes[idx + 1].label ELSE SECTION_TITLES[id]),
      bodyPara(IF id = "default" THEN "" ELSE SECTION_INTRO[id]),
      spacer>>
        \o buildSection(scopes[idx + 1], BulletsOf(results, scopes[idx + 1].id), idx + 1)
        \o (IF idx < Len(scopes) - 1 THEN <<rule, spacer>> ELSE <<>>)

\* the sections of the document body, in the order of the scope list; the title
\* block before them and the closing line after them are left out
DocxSections(scopes, results) ==
    Flat([n \in 1..Len(scopes) |-> SectionOf(scopes, results, n - 1, SectionId(scopes[n]))])

\* ------------------------------------------------------------------------
\* State
\* ------------------------------------------------------------------------

VARIABLES
    templateBuffer,  \* the bytes handleWordExport passes: customTemplate.buffer or the default
    templateParts,   \* what the template's body was written from (names of BodyPieces)
    scopeList,       \* the ordered scopes
    resultMap,       \* scope id -> findings
    docName,         \* fileName || urlInput
    docTitle,        \* { title, subtitle, revision }
    st,              \* the style map in use
    JSZipCached,     \* window._JSZipCached is set
    pc,              \* where the export call stands
    zip,             \* the call's own archive: path -> text
    docXml,          \* the body after the cover title update
    contentXml,      \* the markup built for the scopes
    newDocXml,       \* the body written back
    error,           \* the message of the exception the call threw
    alerts,          \* the alert() messages shown
    downloads,       \* the archives offered for download
    children,        \* the sections exportToDocx (src/App.jsx) builds
    other,           \* a second export call under way: what it was given and its locals
    step,            \* home | confirm | analyzing | results
    docType,         \* pdf | url
    urlInput,        \* the address typed
    fileName,        \* the name of the file chosen, "" when there is none (file is null)
    selectedScopes,  \* the built-in scopes switched on, in the order of insertion
    customScopes,    \* the scopes the user added
    analysisPhase,   \* the line shown under the progress bar
    analysisProgress,
    currentScopeIdx,
    streamingId,     \* the scope being analysed, or null
    activeScopeId,   \* the scope shown, or null
    totalFindings,
    analysisError,   \* the error state of the component, or null
    abortRef,        \* abortRef.current: the index of a controller, 0 for null
    controllers,     \* the AbortControllers made so far: whether each was aborted
    runs,            \* the calls of runAnalysis made so far, each with its locals
    requests,        \* the requests sent to the API
    quota,           \* how many more rate-limit answers the API gives
    clock            \* the time passed on the timers, in milliseconds

vars ==
    <<templateBuffer, templateParts, scopeList, resultMap, docName, docTitle, st, JSZipCached,
      pc, zip, docXml, contentXml, newDocXml, error, alerts, downloads, children, other,
      step, docType, urlInput, fileName, selectedScopes, customScopes, analysisPhase,
      analysisProgress, currentScopeIdx, streamingId, activeScopeId, totalFindings,
      analysisError, abortRef, controllers, runs, requests, quota, clock>>

\* what the caller holds and the call only reads
args == <<templateBuffer, templateParts, scopeList, resultMap, docName, docTitle, st>>

locals == <<docXml, contentXml, newDocXml, children>>

\* the analysis: what the component holds, and its runs, requests and timers
analysis ==
    <<step, docType, urlInput, fileName, selectedScopes, customScopes, analysisPhase,
      analysisProgress, currentScopeIdx, streamingId, activeScopeId, totalFindings,
      analysisError, abortRef, controllers, runs, requests, quota, clock>>

\* what lies outside the export call under way
outside == <<other, analysis>>

\* no second call
NoCall == [pc |-> "none"]

\* null and undefined, where an identifier or a message may stand
Null == "null"

Undefined == "undefined"

DefaultSelection == <<"new_features", "deprecated", "deployment_changes">>

\* the component as it is mounted, nothing run and nothing sent
AnalysisStart ==
    /\ step = "home"
    /\ docType = "pdf"
    /\ urlInput = ""
    /\ fileName = ""
    /\ selectedScopes = DefaultSelection
    /\ customScopes = <<>>
    /\ analysisPhase = ""
    /\ analysisProgress = 0
    /\ currentScopeIdx = 0
    /\ streamingId = Null
    /\ activeScopeId = Null
    /\ totalFindings = 0
    /\ analysisError = Null
    /\ abortRef = 0
    /\ controllers = <<>>
    /\ runs = <<>>
    /\ requests = <<>>
    /\ clock = 0

\* the export is looked at on its own: no second call, and the analysis left aside
OutsideIdle == other = NoCall /\ AnalysisStart /\ quota = 0

NotAZipMessage == "Can't find end of central directory : is this a zip file ?"

NoDocMessage == "Cannot read properties of undefined (reading 'async')"

\* one scope with one finding, where the scopes are not what varies
FixedScopes == <<CustomScope>>

FixedResults == Single(CustomScope.id, <<"Alpha module added">>)

IdleCall ==
    /\ pc = "idle"
    /\ zip = NoFiles
    /\ docXml = ""
    /\ contentXml = ""
    /\ newDocXml = ""
    /\ children = <<>>
    /\ error = ""
    /\ alerts = <<>>
    /\ downloads = <<>>
    /\ docName = "notes v2.pdf"

\* any template body and title, one result set
InitBodies ==
    /\ templateParts \in BodyPartLists
    /\ templateBuffer = BodyOnly(templateParts)
    /\ docTitle \in Titles
    /\ scopeList = FixedScopes
    /\ resultMap = FixedResults
    /\ st = DEFAULT_STYLES
    /\ JSZipCached = FALSE

\* any scope list with either result map, the built-in body
InitResults ==
    /\ templateParts = DefaultBodyParts
    /\ templateBuffer = BodyOnly(templateParts)
    /\ docTitle \in {t \in Titles : t.title # "" /\ t.subtitle # ""}
    /\ scopeList \in ScopeLists
    /\ \E r \in 0..1 :
            /\ resultMap = ResultMapNo(r)
            /\ st = IF r = 0 THEN DEFAULT_STYLES ELSE UploadedStyles
    /\ JSZipCached = TRUE

\* any archive, and bytes that are no archive
InitArchives ==
    /\ templateParts = DefaultBodyParts
    /\ templateBuffer \in ArchiveBuffers \cup {NotAZip}
    /\ docTitle \in {t \in Titles : t.title = "" /\ t.subtitle = ""}
    /\ scopeList = FixedScopes
    /\ resultMap = FixedResults
    /\ st = DEFAULT_STYLES
    /\ JSZipCached \in BOOLEAN

Init == IdleCall /\ OutsideIdle /\ (InitBodies \/ InitResults \/ InitArchives)

\* ------------------------------------------------------------------------
\* handleWordExport and the steps of exportWithTemplate, one per await
\* ------------------------------------------------------------------------

\* The code after an await runs on to the next await: each patch is guarded by its
\* part being there, and reading word/document.xml throws when it is not.
PatchOrder == <<DocRelsPath, ContentTypesPath, SettingsRelsPath, SettingsPath>>

PcOf(path) ==
    CASE path = DocRelsPath -> "rels"
      [] path = ContentTypesPath -> "contentTypes"
      [] path = SettingsRelsPath -> "settingsRels"
      [] path = SettingsPath -> "settings"

\* NextAwait asking for every auxiliary part: a missing one ends the call
NextAwaitStrict(files, k) ==
    IF k <= Len(PatchOrder)
    THEN (IF HasPart(files, PatchOrder[k]) THEN PcOf(PatchOrder[k]) ELSE "rejected")
    ELSE IF HasPart(files, DocPath) THEN "document"
    ELSE "rejected"

NextAwait(files, k) ==
    LET later == {i \in k..Len(PatchOrder) : HasPart(files, PatchOrder[i])}
    IN  IF later # {} THEN PcOf(PatchOrder[MinOf(later)])
        ELSE IF HasPart(files, DocPath) THEN "document"
        ELSE "rejected"

Continue(files, k) ==
    /\ pc' = NextAwait(files, k)
    /\ error' = IF NextAwait(files, k) = "rejected" THEN NoDocMessage ELSE error

\* try { exportWithTemplate(buf, ...) }: the call runs to its first await, loadJSZip()
HandleWordExport ==
    /\ pc = "idle"
    /\ pc' = "loadJSZip"
    /\ UNCHANGED <<outside, args, JSZipCached, zip, locals, error, alerts, downloads>>

\* loadJSZip resolves (from the cache or from the import); JSZip.loadAsync is awaited
LoadJSZip ==
    /\ pc = "loadJSZip"
    /\ JSZipCached' = TRUE
    /\ pc' = "loadAsync"
    /\ UNCHANGED <<outside, args, zip, locals, error, alerts, downloads>>

\* loadAsync settles: it rejects for bytes that are no archive; otherwise the custom
\* XML parts are deleted from the call's archive
LoadAsync ==
    /\ pc = "loadAsync"
    /\ IF templateBuffer.zip
       THEN /\ zip' = StripCustomXml(templateBuffer.files)
            /\ Continue(StripCustomXml(templateBuffer.files), 1)
       ELSE /\ zip' = zip
            /\ pc' = "rejected"
            /\ error' = NotAZipMessage
    /\ UNCHANGED <<outside, args, JSZipCached, locals, alerts, downloads>>

\* one patch: the part is read, the matches of the pattern are taken out, the part is
\* written back, and the call runs on to the next await
Patch(path, pat, k) ==
    /\ zip' = PutPart(zip, path, RemoveMatches(zip[path], pat))
    /\ Continue(zip', k + 1)
    /\ UNCHANGED <<outside, args, JSZipCached, locals, alerts, downloads>>

PatchDocRels ==
    /\ pc = PcOf(DocRelsPath)
    /\ Patch(DocRelsPath, CustomXmlRelPattern, 1)

PatchContentTypes ==
    /\ pc = PcOf(ContentTypesPath)
    /\ Patch(ContentTypesPath, CustomXmlOverridePattern, 2)

PatchSettingsRels ==
    /\ pc = PcOf(SettingsRelsPath)
    /\ Patch(SettingsRelsPath, DotmRelPattern, 3)

PatchSettings ==
    /\ pc = PcOf(SettingsPath)
    /\ Patch(SettingsPath, AttachedTemplatePattern, 4)

\* Splice putting the sections after the suffix
SpliceAfter(doc, content) ==
    LET b == findInjectionBounds(doc)
    IN  Slice(doc, 0, b.prefixEnd) \o SliceFrom(doc, b.suffixStart) \o content

\* prefix + contentXml + suffix
Splice(doc, content) ==
    LET b == findInjectionBounds(doc)
    IN  Slice(doc, 0, b.prefixEnd) \o content \o SliceFrom(doc, b.suffixStart)

\* the body is read, its title set, the sections built and spliced in, and
\* generateAsync is awaited
PatchDocument ==
    /\ pc = "document"
    /\ docXml' = updateCoverTitle(zip[DocPath], docTitle)
    /\ contentXml' = ContentXml(scopeList, resultMap, st)
    /\ newDocXml' = Splice(docXml', contentXml')
    /\ zip' = PutPart(zip, DocPath, newDocXml')
    /\ pc' = "generate"
    /\ UNCHANGED <<outside, args, JSZipCached, error, alerts, downloads, children>>

\* the archive is generated and offered as a download; the name also carries the
\* day of the export, which is left out here
Generate ==
    /\ pc = "generate"
    /\ downloads' = Append(downloads,
            [name |-> "ReleaseLens_" \o SafeName(docTitle, docName), files |-> zip])
    /\ pc' = "done"
    /\ UNCHANGED <<outside, args, JSZipCached, zip, locals, error, alerts>>

\* CatchExport swallowing the exception
CatchExportSilent ==
    /\ pc = "rejected"
    /\ pc' = "failed"
    /\ UNCHANGED <<outside, args, JSZipCached, zip, locals, error, alerts, downloads>>

\* catch (e) { alert("Export failed: " + e.message) }
CatchExport ==
    /\ pc = "rejected"
    /\ alerts' = Append(alerts, "Export failed: " \o error)
    /\ pc' = "failed"
    /\ UNCHANGED <<outside, args, JSZipCached, zip, locals, error, downloads>>

Next ==
    \/ HandleWordExport
    \/ LoadJSZip
    \/ LoadAsync
    \/ PatchDocRels
    \/ PatchContentTypes
    \/ PatchSettingsRels
    \/ PatchSettings
    \/ PatchDocument
    \/ Generate
    \/ CatchExport

Spec == Init /\ [][Next]_vars

\* ------------------------------------------------------------------------
\* The section builders on their own: one scope and its findings
\* ------------------------------------------------------------------------

\* the findings the documentation gives as examples
DeprecatedExample ==
    "Legacy Auth Token ~ Replaced by OAuth2 client credentials; update all integration scripts"

MigrationExample ==
    "Access key & PIN ~ Ensure only the Administrator account credentials are used, never deployment engineers ~ Critical"

ExampleFindings == {DeprecatedExample, MigrationExample}

\* findings with the words the status, the severity and the priority are read from
KeywordFindings ==
    {"SNMPv1 traps MUST NOT be enabled; replaced by SNMPv3",
     "Debug flag: never leave it set after removal of the agent",
     "Old agent merged into core and removed",
     "Telnet access removed",
     "Classic console ^ superseded by the web console",
     "Passwords must rotate every 90 days",
     "TLS 1.2 is mandatory for agents",
     "Close high-risk ports",
     "Backups ~ run before the upgrade",
     "Licenses ~ review the seats ~ medium"}

\* findings with a dash between spaces early and late, and with a late first colon
DelimiterFindings ==
    {"Short ~ detail after an early dash",
     "Seven ch ~ detail after a dash",
     "A dash after ten characters ~ the detail follows",
     "This finding keeps its first colon back until the text has run on beyond eighty characters: tail"}

LongFinding ==
    "This finding has no delimiter at all and runs well past sixty characters in length"

\* finding texts: empty, blank, plain, with a colon early and late, with dashes set
\* between spaces and between letters s, with markup characters
ParserInputs ==
    {"", "   ", "no delimiter in this finding", LongFinding,
     "Legacy Auth Token ~ Replaced by OAuth2 ~ update scripts",
     "Access keys~sPIN rules^sCritical items~send",
     "Feature title: detail text", "ab: short colon",
     "R&D <tag> \"q\" > x", "~ ^ ~ only dashes"}
        \cup ExampleFindings \cup KeywordFindings \cup DelimiterFindings

\* one scope with one finding text, with a list of findings, or with no entry
InitBuild ==
    /\ \E scope \in ScopeSet :
            /\ scopeList = <<scope>>
            /\ resultMap \in {Single(scope.id, <<b>>) : b \in ParserInputs}
                                \cup {Single(scope.id, list) : list \in FindingLists}
                                \cup {NoFiles}
    /\ st = DEFAULT_STYLES
    /\ templateParts = <<>>
    /\ templateBuffer = NotAZip
    /\ docTitle \in {t \in Titles : t.title = "" /\ t.subtitle = ""}
    /\ JSZipCached = FALSE
    /\ zip = NoFiles
    /\ docXml = ""
    /\ contentXml = ""
    /\ newDocXml = ""
    /\ children = <<>>
    /\ error = ""
    /\ alerts = <<>>
    /\ downloads = <<>>
    /\ docName = "notes v2.pdf"
    /\ pc = "build"
    /\ OutsideIdle

\* scopeList.map(scope => buildScopeXml(scope, resultMap[scope.id] || [], st)).join("")
BuildScope ==
    /\ pc = "build"
    /\ contentXml' = ContentXml(scopeList, resultMap, st)
    /\ pc' = "built"
    /\ UNCHANGED <<outside, args, JSZipCached, zip, docXml, newDocXml, error, alerts, downloads,
                   children>>

\* exportToDocx (src/App.jsx) on the same scopes and findings:
\* scopeList.forEach((scope, idx) => children.push(..., ...buildSection(scope, bullets, idx + 1)))
ExportToDocx ==
    /\ pc = "build"
    /\ children' = DocxSections(scopeList, resultMap)
    /\ pc' = "docx"
    /\ UNCHANGED <<outside, args, JSZipCached, zip, docXml, contentXml, newDocXml, error, alerts,
                   downloads>>

NextBuild ==
    \/ BuildScope
    \/ ExportToDocx

SpecBuild == InitBuild /\ [][NextBuild]_vars

\* ------------------------------------------------------------------------
\* handleTemplateUpload: a template is chosen and its styles are detected
\* ------------------------------------------------------------------------

\* no custom template yet: the export would take the built-in template and styles
InitStyles ==
    /\ IdleCall
    /\ OutsideIdle
    /\ templateParts = DefaultBodyParts
    /\ templateBuffer = BodyOnly(templateParts)
    /\ docTitle \in {t \in Titles : t.title = "" /\ t.subtitle = ""}
    /\ scopeList = FixedScopes
    /\ resultMap = FixedResults
    /\ st = DEFAULT_STYLES
    /\ JSZipCached = FALSE

\* setCustomTemplate({ name, buffer: buf, styles: await detectTemplateStyles(buf) })
UploadArchive ==
    /\ pc = "idle"
    /\ \E catalogue \in UploadCatalogues : \E body \in UploadBodies :
            /\ templateParts' = catalogue
            /\ templateBuffer' = ZipBuffer(UploadFiles(catalogue, body))
    /\ st' = detectTemplateStyles(templateBuffer'.files)
    /\ JSZipCached' = TRUE
    /\ pc' = "uploaded"
    /\ UNCHANGED <<outside, scopeList, resultMap, docName, docTitle, zip, locals, error, alerts,
                   downloads>>

\* the file is no archive: loadAsync rejects, nothing catches it and no custom
\* template is set
UploadRejected ==
    /\ pc = "idle"
    /\ JSZipCached' = TRUE
    /\ error' = NotAZipMessage
    /\ pc' = "uploadRejected"
    /\ UNCHANGED <<outside, args, zip, locals, alerts, downloads>>

NextStyles ==
    \/ UploadArchive
    \/ UploadRejected

SpecStyles == InitStyles /\ [][NextStyles]_vars

\* ------------------------------------------------------------------------
\* Properties
\* ------------------------------------------------------------------------

\* the call has built the sections and spliced them into the body
Spliced == pc \in {"generate", "done"}

\* the sections are just built: the archive is not generated yet
Built == pc = "generate"

\* the body of the template as it was passed in
TemplateBody == templateBuffer.files[DocPath]

HasBody == templateBuffer.zip /\ HasPart(templateBuffer.files, DocPath)

Occurrences(s, pat) == {i \in 0..(Len(s) - Len(pat)) : SubSeq(s, i + 1, i + Len(pat)) = pat}

\* the k-th smallest member of a set of numbers
Nth(S, k) == CHOOSE x \in S : Cardinality({y \in S : y < x}) = k - 1

EndsWith(s, pat) == StartsAt(s, pat, Len(s) - Len(pat))

\* a text run as every helper writes it
Run(text) == "<w:t xml:space=\"preserve\">" \o text \o "</w:t></w:r>"

\* where a level-one heading paragraph opens: every section opens with one
H1Open(styles) == "<w:p><w:pPr><w:pStyle w:val=\"" \o styles.h1 \o "\"/>"

SectionStarts(content, styles) == Occurrences(content, H1Open(styles))

\* the k-th of the sections that start at the places `starts`: from its heading to
\* the next heading
SectionAt(content, starts, k) ==
    Slice(content, Nth(starts, k),
          IF k < Cardinality(starts) THEN Nth(starts, k + 1) ELSE Len(content))

\* the findings whose text shows in a section, in the order of their places
MarkPlaces(section) == UNION {Occurrences(section, xmlEsc(f)) : f \in Findings}

FindingAt(section, p) == CHOOSE f \in Findings : StartsAt(section, xmlEsc(f), p)

MarksAt(section, places) ==
    [k \in 1..Cardinality(places) |-> FindingAt(section, Nth(places, k))]

MarksOf(section) == MarksAt(section, MarkPlaces(section))

\* a list with each member said c times in a row
Stutter(list, c) == [k \in 1..(c * Len(list)) |-> list[((k - 1) \div c) + 1]]

\* whether section is the section of scope with its findings in their order
IsSectionOf(section, scope, bullets, styles) ==
    /\ section = buildScopeXml(scope, bullets, styles)
    /\ \E c \in 1..2 : MarksOf(section) = Stutter(bullets, c)


\* C1: the built content holds exactly one section per member of the scope list, in
\* the order of the list (a scope met twice is rendered twice, a scope without an
\* entry in the result map is rendered as empty), and inside each section the
\* findings show in the order of the scope's list of findings.
C1_SectionsInListOrder ==
    Built =>
        LET starts == SectionStarts(contentXml, st)
        IN  /\ Cardinality(starts) = Len(scopeList)
            /\ contentXml # "" => 0 \in starts
            /\ \A k \in 1..Len(scopeList) :
                  IsSectionOf(SectionAt(contentXml, starts, k), scopeList[k],
                              BulletsOf(resultMap, scopeList[k].id), st)

\* C1 witness: two scopes out of catalogue order, the first with two different
\* findings, the second without an entry in the result map
C1_Witness ==
    /\ Built
    /\ Len(scopeList) = 2
    /\ ScopeIndex(scopeList[1].id) > ScopeIndex(scopeList[2].id)
    /\ Len(BulletsOf(resultMap, scopeList[1].id)) = 2
    /\ BulletsOf(resultMap, scopeList[1].id)[1] # BulletsOf(resultMap, scopeList[1].id)[2]
    /\ scopeList[2].id \notin DOMAIN resultMap
    /\ st = UploadedStyles

\* ------------------------------------------------------------------------
\* The splice: prefix, sections, suffix
\* ------------------------------------------------------------------------

HasSect(body) == Occurrences(body, SectPrOpen) # {}

\* where the last section-properties block of a body opens
LastSectAt(body) == MaxOf(Occurrences(body, SectPrOpen))

ParaEndsBefore(body, k) == {i \in Occurrences(body, ParaEnd) : i < k}

\* the body has a section-properties block and a paragraph end before the last one
HasFrontSpan(body) == HasSect(body) /\ ParaEndsBefore(body, LastSectAt(body)) # {}

\* where the span "start .. last paragraph end before the last block" ends
FrontEnd(body) == MaxOf(ParaEndsBefore(body, LastSectAt(body))) + Len(ParaEnd)

FrontSpan(body) == SubSeq(body, 1, FrontEnd(body))

\* the last section-properties block of a body and all that follows it
BackSpan(body) == SubSeq(body, LastSectAt(body) + 1, Len(body))

\* a title is given and the body has a paragraph to put it in
TitleApplies(body, title) == title.title # "" /\ Occurrences(body, TitleStyleRef) # {}

TitleAt(body) == MinOf(Occurrences(body, TitleStyleRef))

\* C2 as stated: for a template body with a section-properties block (and a
\* paragraph end before the last one), the span of the template body from its start
\* through the last paragraph end before the last block stands byte for byte at the
\* start of the exported body, whatever the findings and the title.
C2_FrontSpanOfTemplateKept ==
    (Spliced /\ HasFrontSpan(TemplateBody)) => StartsWith(newDocXml, FrontSpan(TemplateBody))

\* C2 amended: the exported body starts with that span of the body as it stands after
\* the cover title step; this is the template's own span, byte for byte, unless a
\* title is given and the title paragraph it replaces lies inside the span.
C2_FrontSpanKept ==
    (Spliced /\ HasFrontSpan(TemplateBody)) =>
        /\ HasFrontSpan(docXml)
        /\ StartsWith(newDocXml, FrontSpan(docXml))
        /\ SubSeq(newDocXml, FrontEnd(docXml) + 1, FrontEnd(docXml) + Len(contentXml)) = contentXml
        /\ (~(TitleApplies(TemplateBody, docTitle) /\ TitleAt(TemplateBody) < FrontEnd(TemplateBody))
                => StartsWith(newDocXml, FrontSpan(TemplateBody)))

\* C2 witness: a title is given and the title paragraph it replaces lies inside the
\* span, after another paragraph: the exported body starts with the span of the body
\* that carries the new title
C2_Witness ==
    /\ pc = "done"
    /\ HasFrontSpan(TemplateBody)
    /\ TitleApplies(TemplateBody, docTitle)
    /\ TitleAt(TemplateBody) < FrontEnd(TemplateBody)
    /\ templateParts[1] = "para"
    /\ FrontSpan(docXml) # FrontSpan(TemplateBody)
    /\ StartsWith(newDocXml, FrontSpan(docXml))

C4_WholeBodyIsPrefix ==
    (Spliced /\ ~HasSect(TemplateBody)) => newDocXml = docXml \o contentXml

\* C4, what the code does: the last character of the body is taken as the suffix and
\* the sections are put before it
C4_Witness ==
    /\ pc = "done"
    /\ ~HasSect(TemplateBody)
    /\ contentXml # ""
    /\ newDocXml = SubSeq(docXml, 1, Len(docXml) - 1) \o contentXml \o ">"

\* ------------------------------------------------------------------------
\* Failure and the optional steps
\* ------------------------------------------------------------------------

\* the bytes are no archive, or the archive has no main document part
BadTemplate == ~HasBody

AuxPaths == {DocRelsPath, ContentTypesPath, SettingsRelsPath, SettingsPath}

\* the archive has been opened
Opened == pc \notin {"idle", "loadJSZip", "loadAsync", "rejected", "failed"}

\* C5: with template bytes that are no archive, or an archive without the main
\* document part, the call never reaches the document step and never is done, offers
\* no download, shows exactly one alert (the message of the exception) when it has
\* failed and none before, and no step changes the template, the scope list, the
\* results, the title or the styles.
C5_FailsOnceNoOutput ==
    /\ [](BadTemplate =>
            /\ pc \notin {"document", "generate", "done"}
            /\ downloads = <<>>
            /\ (pc = "failed" => alerts = <<"Export failed: " \o error>> /\ error # "")
            /\ (pc # "failed" => alerts = <<>>))
    /\ [][BadTemplate => UNCHANGED args]_vars

\* C5 witness: an archive without the main document part whose relationship list was
\* patched before the call failed
C5_Witness ==
    /\ pc = "failed"
    /\ templateBuffer.zip
    /\ ~HasPart(templateBuffer.files, DocPath)
    /\ HasPart(zip, DocRelsPath)
    /\ zip[DocRelsPath] # templateBuffer.files[DocRelsPath]
    /\ alerts = <<"Export failed: " \o NoDocMessage>>
    /\ downloads = <<>>

\* C6: with an archive that has the main document part, whatever auxiliary parts are
\* there: a patch step is taken only for a part that is there, a part that is not
\* there is not created, no exception and no alert occurs on the way, and the call
\* when done has offered one archive, which holds the document.
C6_StepsOptional ==
    HasBody =>
        /\ pc \notin {"rejected", "failed"}
        /\ error = ""
        /\ alerts = <<>>
        /\ \A path \in AuxPaths : pc = PcOf(path) => HasPart(zip, path)
        /\ Opened => \A path \in AuxPaths : HasPart(zip, path) <=> HasPart(templateBuffer.files, path)
        /\ pc # "done" => downloads = <<>>
        /\ pc = "done" => Len(downloads) = 1 /\ HasPart(downloads[1].files, DocPath)

\* C6 witness: an export done for an archive with the settings part and without the
\* three other auxiliary parts
C6_Witness ==
    /\ pc = "done"
    /\ HasPart(templateBuffer.files, SettingsPath)
    /\ ~HasPart(templateBuffer.files, DocRelsPath)
    /\ ~HasPart(templateBuffer.files, ContentTypesPath)
    /\ ~HasPart(templateBuffer.files, SettingsRelsPath)
    /\ Len(downloads) = 1
    /\ ~Includes(downloads[1].files[SettingsPath], "attachedTemplate")

\* ------------------------------------------------------------------------
\* The parts of the exported archive
\* ------------------------------------------------------------------------

\* the archive offered for download
Output == downloads[1].files

UnderCustomXml(path) == Len(path) >= 10 /\ SubSeq(path, 1, 10) = "customXml/"

\* the relationship and override entries are empty-element tags, as Office writes them
MentionsCustomXml(text) == Occurrences(text, "customXml") # {}

KnownPaths == AuxPaths \cup {DocPath}

\* C8: every part of the template that is neither under customXml/ nor one of the five
\* known parts is in the exported archive at its path with its content; the known
\* parts the template holds are in the exported archive at their paths; and the
\* exported archive holds no part the template does not hold.
C8_OtherPartsUntouched ==
    pc = "done" =>
        /\ \A path \in DOMAIN templateBuffer.files :
              (~UnderCustomXml(path) /\ path \notin KnownPaths)
                  => HasPart(Output, path) /\ Output[path] = templateBuffer.files[path]
        /\ \A path \in KnownPaths : HasPart(templateBuffer.files, path) => HasPart(Output, path)
        /\ DOMAIN Output \subseteq DOMAIN templateBuffer.files

\* C8 witness: custom XML parts were removed and docProps/custom.xml, which is not
\* one of them, is still there
C8_Witness ==
    /\ pc = "done"
    /\ \E path \in DOMAIN templateBuffer.files : UnderCustomXml(path)
    /\ HasPart(Output, "docProps/custom.xml")
    /\ HasPart(Output, "word/styles.xml")
    /\ HasPart(Output, SettingsRelsPath)

\* ------------------------------------------------------------------------
\* The cover title
\* ------------------------------------------------------------------------

TitlePieces == {"title", "titleAttr"}

TitlePlaces(parts) == {i \in 1..Len(parts) : parts[i] \in TitlePieces}

PiecesXml(parts, from, to) == Concat([i \in 1..(to - from + 1) |-> PieceXml(parts[from + i - 1])])

\* the given texts in capitals, with the markup characters escaped
InCapitals(text) ==
    CASE text = "" -> ""
      [] text = "Guide" -> "GUIDE"
      [] text = "Dell R&D 1.x" -> "DELL R&amp;D 1.X"
      [] text = "Guide <a>" -> "GUIDE &lt;A&gt;"

TitleParagraph(title) ==
    "<w:p><w:pPr><w:pStyle w:val=\"Title\"/></w:pPr><w:r><w:t xml:space=\"preserve\">"
        \o InCapitals(title.title)
        \o (IF title.subtitle # "" THEN " - " \o InCapitals(title.subtitle) ELSE "")
        \o "</w:t></w:r></w:p>"

\* C9: when a title is given and the body has paragraphs with the title style, the
\* body after the title step is the body with the first of them replaced by one title
\* paragraph whose text is the title in capitals, then " - " and the subtitle in
\* capitals when a subtitle is given, and with all before and after it as it was;
\* when the body has no such paragraph (or no title is given) the body is as it was;
\* in both cases the export has not failed.
C9_TitleParagraphReplaced ==
    Spliced =>
        /\ error = ""
        /\ alerts = <<>>
        /\ docXml =
              IF docTitle.title # "" /\ TitlePlaces(templateParts) # {}
              THEN LET i == MinOf(TitlePlaces(templateParts))
                   IN  BodyOpen \o PiecesXml(templateParts, 1, i - 1)
                           \o TitleParagraph(docTitle)
                           \o PiecesXml(templateParts, i + 1, Len(templateParts)) \o BodyClose
              ELSE TemplateBody

\* C9 witness: a title and a subtitle given, the title paragraph (one with attributes)
\* standing between two other pieces
C9_Witness ==
    /\ pc = "done"
    /\ docTitle.title # ""
    /\ docTitle.subtitle # ""
    /\ Len(templateParts) = 3
    /\ templateParts[2] = "titleAttr"
    /\ templateParts[1] \notin TitlePieces
    /\ docXml # TemplateBody

\* ------------------------------------------------------------------------
\* Parsing and rendering one finding
\* ------------------------------------------------------------------------

RunOpen == "<w:t xml:space=\"preserve\">"

RunClose == "</w:t>"

\* the texts of the runs of a piece of markup, in their order
RunTextsAt(content, opens, closes) ==
    [k \in 1..Cardinality(opens) |->
        LET a == Nth(opens, k) + Len(RunOpen)
        IN  SubSeq(content, a + 1, MinOf({q \in closes : q >= a}))]

RunTexts(content) == RunTextsAt(content, Occurrences(content, RunOpen), Occurrences(content, RunClose))

LastTexts(texts, n) == SubSeq(texts, Len(texts) - n + 1, Len(texts))

\* a finding with none of the delimiters the parsers look for
NoDelimiter(b) == \A c \in {":", EmDash, EnDash} : Occurrences(b, c) = {}

FirstChars(b, n) == SubSeq(b, 1, MinOf({n, Len(b)}))

\* what the record of a finding without delimiters shows: per scope, the texts of
\* its last runs with the places the parser fills from keywords left open ("?")
FallbackTexts(id, b) ==
    CASE id = "new_features" -> <<Trim(FirstChars(b, 60)), "">>
      [] id = "deprecated" -> <<IF Trim(b) # "" THEN Trim(b) ELSE FirstChars(b, 60), "?", b>>
      [] id = "deployment_changes" -> <<IF Trim(b) # "" THEN Trim(b) ELSE FirstChars(b, 50), "?", "">>
      [] id = "security" -> <<b, "?", "Verify compliance">>
      [] id = "migration_guide" -> <<IF Trim(b) # "" THEN Trim(b) ELSE FirstChars(b, 30), b, "?">>
      [] OTHER -> <<b>>

Matches(texts, expected) ==
    /\ Len(texts) = Len(expected)
    /\ \A k \in 1..Len(expected) : expected[k] = "?" \/ texts[k] = xmlEsc(expected[k])

\* the scope built on its own has one finding
OneFinding == Len(BulletsOf(resultMap, scopeList[1].id)) = 1

\* C10: for every finding text and every scope, built-in or not, building the section
\* yields markup: a section that opens with its heading and closes with the spacer
\* paragraph, with one record for the finding; and for a finding without a colon and
\* without a dash the record is the fallback made from the finding's text.
C10_ParseRenderTotal ==
    (pc = "built" /\ OneFinding) =>
        LET scope == scopeList[1]
            b == resultMap[scope.id][1]
            texts == RunTexts(contentXml)
            expected == FallbackTexts(scope.id, b)
        IN  /\ StartsWith(contentXml, H1Open(st))
            /\ EndsWith(contentXml, xmlSpacer(st))
            /\ Len(texts) >= 1 + Len(expected)
            /\ NoDelimiter(b) => Matches(LastTexts(texts, Len(expected)), expected)

\* C10 witness: the empty finding built for the migration guide
C10_Witness ==
    /\ pc = "built"
    /\ scopeList[1].id = "migration_guide"
    /\ BulletsOf(resultMap, "migration_guide") = <<"">>
    /\ Len(RunTexts(contentXml)) = 8

\* ------------------------------------------------------------------------
\* The style resolver
\* ------------------------------------------------------------------------

Uploaded == pc = "uploaded"

\* the catalogue of the upload is written from style pieces
FromPieces(catalogue) == catalogue \in Catalogues

\* the display name of a written piece, case-folded and trimmed
WrittenName(piece) == Trim(toLowerCase(StylePieces[piece].name))

\* a piece written into the catalogue carries a name that a rule of the role matches
Declares(catalogue, role) ==
    /\ FromPieces(catalogue)
    /\ \E n \in 1..Len(catalogue) : \E r \in 1..Len(RoleRules[role]) :
            RuleMatches(RoleRules[role][r], WrittenName(catalogue[n]))

UploadedBody == IF HasPart(templateBuffer.files, DocPath) THEN templateBuffer.files[DocPath] ELSE ""

\* C11: after every upload of an archive the style map has its eight roles, each a
\* non-empty string, whether the catalogue is absent, empty or malformed; a role no
\* style of the catalogue declares has its default, the fill has its default when
\* the body names none, and with no styles part the map is the default map.
C11_EveryRoleSet ==
    Uploaded =>
        /\ DOMAIN st = DOMAIN DEFAULT_STYLES
        /\ Cardinality(DOMAIN st) = 8
        /\ \A role \in DOMAIN st : st[role] # ""
        /\ \A role \in StyleRoles :
                ~Declares(templateParts, role) => st[role] = DEFAULT_STYLES[role]
        /\ (~Includes(UploadedBody, "w:fill=")) => st.fill = DEFAULT_STYLES.fill
        /\ templateParts = NoCatalogue => st = DEFAULT_STYLES

\* a malformed piece, then a style for heading 1: that role is resolved and the
\* others have their defaults
C11_Witness ==
    /\ Uploaded
    /\ templateParts = <<"garbage", "titre1">>
    /\ st.h1 = "Titre1"
    /\ st.h2 = DEFAULT_STYLES.h2
    /\ st.fill = "A0B1C2"

\* the catalogue is written from complete style blocks with distinct identifiers
WellFormed(catalogue) ==
    /\ FromPieces(catalogue)
    /\ \A n \in 1..Len(catalogue) : StylePieces[catalogue[n]].block
    /\ \A n, k \in 1..Len(catalogue) :
            StylePieces[catalogue[n]].id = StylePieces[catalogue[k]].id => n = k

\* the styles of the catalogue in scan order
Written(catalogue) ==
    [n \in 1..Len(catalogue) |->
        [id |-> StylePieces[catalogue[n]].id, name |-> WrittenName(catalogue[n])]]

\* C12: for each role the rules are tried in order: a style matching an earlier rule
\* is chosen over one matching only a later rule, wherever they stand in the
\* catalogue, and among the styles matching the same rule the first in scan order
\* is chosen.
C12_EarlierRuleWins ==
    (Uploaded /\ WellFormed(templateParts)) =>
        \A role \in StyleRoles :
            st[role] = OrElse(PickByRule(Written(templateParts), RoleRules[role]),
                              DEFAULT_STYLES[role])

\* "Body Text 2" stands before "Body Text" in the catalogue: the body role takes the
\* style that matches only the pattern
C12_Witness ==
    /\ Uploaded
    /\ templateParts = <<"body2", "corps">>
    /\ st.body = "BodyText2"

\* ------------------------------------------------------------------------
\* The finding parsers, in both exports
\* ------------------------------------------------------------------------

\* a section was built for the one scope of the list, by either export
SectionBuilt(id) == pc \in {"built", "docx"} /\ scopeList[1].id = id

TheFinding == BulletsOf(resultMap, scopeList[1].id)[1]

\* a finding as parseBullets lets it through: trimmed and longer than ten characters
Parsed(b) == Trim(b) = b /\ Len(b) > 10

\* the three cells of the data row of the section's table, as text: read back from the
\* runs of the markup, or taken from the table of the docx export
RowCells ==
    IF pc = "built" THEN [k \in 1..3 |-> LastTexts(RunTexts(contentXml), 3)[k]]
    ELSE [k \in 1..3 |-> xmlEsc(children[Len(children)].rows[2][k])]

\* the first dash of b that stands between white space: the index of the white space
\* before it, or -1
SpacedDashAt(b) ==
    FirstOf({i \in 0..(Len(b) - 3) :
                /\ CharAt(b, i) \in WhiteSpace
                /\ CharAt(b, i + 1) \in {EmDash, EnDash}
                /\ CharAt(b, i + 2) \in WhiteSpace})

BeforeDash(b) == Trim(Slice(b, 0, SpacedDashAt(b)))

AfterDash(b) == Trim(SliceFrom(b, SpacedDashAt(b) + 2))

\* item and notes of a deprecated finding as documented
DeprecatedAsDocumented(cells, b) ==
    /\ SpacedDashAt(b) # -1 => cells[1] = xmlEsc(BeforeDash(b)) /\ cells[3] = xmlEsc(AfterDash(b))
    /\ SpacedDashAt(b) = -1 => cells[1] = xmlEsc(b) /\ cells[3] = xmlEsc(b)
    /\ b = DeprecatedExample =>
            cells = <<"Legacy Auth Token", "Replaced",
                      "Replaced by OAuth2 client credentials; update all integration scripts">>

\* C13: in the deprecated section a finding with an em or en dash between white space
\* is split at the dash, the first segment being the item and the remainder the
\* notes; a finding with no such dash is item and notes as a whole; the documented
\* example gives item "Legacy Auth Token", status "Replaced" and the text after the
\* dash as notes.
C13_DeprecatedSplitAtDash ==
    (SectionBuilt("deprecated") /\ OneFinding /\ Parsed(TheFinding)) =>
        DeprecatedAsDocumented(RowCells, TheFinding)

\* the documented example built by the template export: it is not split, item and
\* notes are the whole finding
C13_Witness ==
    /\ pc = "built"
    /\ scopeList[1].id = "deprecated"
    /\ BulletsOf(resultMap, "deprecated") = <<DeprecatedExample>>
    /\ RowCells = <<DeprecatedExample, "Replaced", DeprecatedExample>>

\* the same on the docx export alone
DocxDeprecatedSplitAtDash ==
    (pc = "docx" /\ scopeList[1].id = "deprecated" /\ OneFinding /\ Parsed(TheFinding)) =>
        DeprecatedAsDocumented(RowCells, TheFinding)

\* text has the word, whatever the case of its letters
Has(text, word) == Occurrences(toLowerCase(text), word) # {}

\* "never" and, later on, "set"
HasNeverSet(text) ==
    \E i \in Occurrences(toLowerCase(text), "never") :
        \E j \in Occurrences(toLowerCase(text), "set") : j >= i + 5

\* the status of a deprecated finding as documented: the first group with a word in it
StatusAsDocumented(b) ==
    CASE Has(b, "prohibit") \/ Has(b, "must not") \/ HasNeverSet(b) -> "Prohibited"
      [] OTHER ->
            (CASE Has(b, "replac") \/ Has(b, "supersed") -> "Replaced"
               [] OTHER ->
                    (CASE Has(b, "merg") -> "Merged/Superseded"
                       [] OTHER -> IF Has(b, "remov") THEN "Removed" ELSE "Deprecated"))

\* C14: in the deprecated section the status is that of the first keyword group, in
\* the order prohibit / must not / never...set (Prohibited), replac / supersed
\* (Replaced), merg (Merged/Superseded), remov (Removed), that the finding matches
\* without regard to case, and Deprecated when it matches none: a finding matching
\* several groups has the status of the first of them.
C14_StatusByPriority ==
    (SectionBuilt("deprecated") /\ OneFinding /\ Parsed(TheFinding)) =>
        RowCells[2] = StatusAsDocumented(TheFinding)

\* a finding with "MUST NOT" and "replaced" built by the docx export: its status is
\* that of the second group
C14_Witness ==
    /\ pc = "docx"
    /\ scopeList[1].id = "deprecated"
    /\ BulletsOf(resultMap, "deprecated") = <<"SNMPv1 traps MUST NOT be enabled; replaced by SNMPv3">>
    /\ RowCells[2] = "Replaced"

\* the same on the template export alone
BuiltStatusByPriority ==
    (pc = "built" /\ scopeList[1].id = "deprecated" /\ OneFinding /\ Parsed(TheFinding)) =>
        RowCells[2] = StatusAsDocumented(TheFinding)

HasAny(text, words) == \E w \in words : Has(text, w)

\* the segments between the dashes that stand between white space
RECURSIVE SegmentsOf(_)
SegmentsOf(b) ==
    IF SpacedDashAt(b) = -1 THEN <<b>> ELSE <<BeforeDash(b)>> \o SegmentsOf(AfterDash(b))

\* the priority of a migration finding as documented, from the raw priority segment
\* and from the whole text ("critical" and "high" being what a raw priority says)
PriorityAsDocumented(raw, b) ==
    CASE Has(raw, "critical") \/ HasAny(b, {"critical", "must", "cannot", "never"}) -> "Critical"
      [] OTHER ->
            IF Has(raw, "high") \/ HasAny(b, {"required", "before", "ensure"}) THEN "High"
            ELSE "Medium"

MigrationAsDocumented(cells, b, segments) ==
    /\ Len(segments) >= 2 => cells[1] = xmlEsc(segments[1]) /\ cells[2] = xmlEsc(segments[2])
    /\ cells[3] = PriorityAsDocumented(IF Len(segments) >= 3 THEN segments[3] ELSE "", b)
    /\ b = MigrationExample =>
            cells = <<"Access key &amp; PIN",
                      "Ensure only the Administrator account credentials are used, never deployment engineers",
                      "Critical">>

\* C15: in the migration guide section a finding is split at the dashes between white
\* space into area, action and raw priority, and the priority is Critical for critical /
\* must / cannot / never, else High for high / required / before / ensure, else
\* Medium, read from the raw priority and from the whole text; the documented example
\* gives area "Access key & PIN", its middle segment as action and Critical.
C15_MigrationSplitAndPriority ==
    (SectionBuilt("migration_guide") /\ OneFinding /\ Parsed(TheFinding)) =>
        MigrationAsDocumented(RowCells, TheFinding, SegmentsOf(TheFinding))

\* the documented example built by the template export: area and action are the whole
\* finding
C15_Witness ==
    /\ pc = "built"
    /\ scopeList[1].id = "migration_guide"
    /\ BulletsOf(resultMap, "migration_guide") = <<MigrationExample>>
    /\ RowCells = <<xmlEsc(MigrationExample), xmlEsc(MigrationExample), "Critical">>

\* the same on the docx export alone
DocxMigrationSplitAndPriority ==
    (pc = "docx" /\ scopeList[1].id = "migration_guide" /\ OneFinding /\ Parsed(TheFinding)) =>
        MigrationAsDocumented(RowCells, TheFinding, SegmentsOf(TheFinding))

\* the severity of a security finding as documented
SeverityAsDocumented(b) ==
    CASE HasAny(b, {"must", "never", "cannot", "critical", "prohibit"}) -> "Critical"
      [] OTHER -> IF HasAny(b, {"required", "mandatory"}) THEN "High" ELSE "Medium"

SecurityAsDocumented(cells, b) ==
    /\ cells[1] = xmlEsc(b)
    /\ cells[2] = SeverityAsDocumented(b)

\* C16: in the security section the requirement is the whole finding and the severity
\* is read from it without regard to case: Critical for must / never / cannot /
\* critical / prohibit, else High for required / mandatory, else Medium.
C16_SecuritySeverity ==
    (SectionBuilt("security") /\ OneFinding /\ Parsed(TheFinding)) =>
        SecurityAsDocumented(RowCells, TheFinding)

\* a finding with "must" built by the template export: its severity is Medium
C16_Witness ==
    /\ pc = "built"
    /\ scopeList[1].id = "security"
    /\ BulletsOf(resultMap, "security") = <<"Passwords must rotate every 90 days">>
    /\ RowCells = <<"Passwords must rotate every 90 days", "Medium", "Verify compliance">>

\* the same on the docx export alone
DocxSecuritySeverity ==
    (pc = "docx" /\ scopeList[1].id = "security" /\ OneFinding /\ Parsed(TheFinding)) =>
        SecurityAsDocumented(RowCells, TheFinding)

\* title and detail of the one feature of the section, as text
FeatureCells ==
    IF pc = "built" THEN [k \in 1..2 |-> LastTexts(RunTexts(contentXml), 2)[k]]
    ELSE <<xmlEsc(SliceFrom(children[4].text, Len("1.1  "))), xmlEsc(children[5].text)>>

FirstColon(b) == FirstOf(Occurrences(b, ":"))

ColonApplies(b) == FirstColon(b) > 5 /\ FirstColon(b) < 80

\* title and detail of a feature as documented
FeatureAsDocumented(cells, b) ==
    CASE ColonApplies(b) ->
            cells = <<xmlEsc(Trim(Slice(b, 0, FirstColon(b)))),
                      xmlEsc(Trim(SliceFrom(b, FirstColon(b) + 1)))>>
      [] ~ColonApplies(b) /\ SpacedDashAt(b) # -1 ->
            cells = <<xmlEsc(BeforeDash(b)), xmlEsc(AfterDash(b))>>
      [] OTHER -> cells = <<xmlEsc(Trim(FirstChars(b, 60))), "">>

\* C17: in the new features section, when the first colon of the finding lies between
\* character 5 and 80 the title is the trimmed text before it and the detail the
\* trimmed text after it; otherwise the finding is split at an em or en dash between
\* white space; when neither applies the title is the first 60 characters and the
\* detail is empty.
C17_FeatureTitleAndDetail ==
    (SectionBuilt("new_features") /\ OneFinding /\ Parsed(TheFinding)) =>
        FeatureAsDocumented(FeatureCells, TheFinding)

\* a finding with a dash between white space and no colon, built by the template
\* export: the title is its first 60 characters and the detail is empty
C17_Witness ==
    /\ pc = "built"
    /\ scopeList[1].id = "new_features"
    /\ BulletsOf(resultMap, "new_features") = <<"A dash after ten characters ~ the detail follows">>
    /\ FeatureCells = <<"A dash after ten characters ~ the detail follows", "">>

\* the same on the docx export alone, for findings whose dash stands after the tenth
\* character
DocxFeatureTitleAndDetail ==
    (/\ pc = "docx"
     /\ scopeList[1].id = "new_features"
     /\ OneFinding
     /\ Parsed(TheFinding)
     /\ SpacedDashAt(TheFinding) \notin 0..10) =>
        FeatureAsDocumented(FeatureCells, TheFinding)

\* the colon rule and the fall-back on the template export alone: findings with no
\* dash between white space or between letters s
BuiltFeatureColonAndFallback ==
    (/\ pc = "built"
     /\ scopeList[1].id = "new_features"
     /\ OneFinding
     /\ Parsed(TheFinding)
     /\ (ColonApplies(TheFinding) \/ (SpacedDashAt(TheFinding) = -1 /\ SearchDash(TheFinding) = -1))) =>
        FeatureAsDocumented(FeatureCells, TheFinding)

\* ------------------------------------------------------------------------
\* Empty sections, custom scopes and table widths
\* ------------------------------------------------------------------------

NoFindings == Len(BulletsOf(resultMap, scopeList[1].id)) = 0

\* the paragraphs of the markup that refer to the style
StyledAt(content, style) == Occurrences(content, "<w:pStyle w:val=\"" \o style \o "\"/>")

\* the opening of a paragraph of the style up to the text of its run
StyledRun(style) == "<w:pStyle w:val=\"" \o style \o "\"/></w:pPr><w:r>" \o RunOpen

\* a text saying that nothing was identified
SaysNoFindings(text) == StartsWith(text, "No ") /\ Includes(text, " identified ")

\* the places of the sequence whose element satisfies the test
Places(seq, Test(_)) == {n \in 1..Len(seq) : Test(seq[n])}

IsHeading(p) == p.kind \in {"H1", "H2"}

IsNoFindingsBody(p) == p.kind = "body" /\ SaysNoFindings(p.text)

IsTable(p) == p.kind = "table"

IsBullet(p) == p.kind = "bullet"

\* C18: for every scope, built-in or custom, with no findings, the section has exactly
\* one heading and exactly one body paragraph saying that nothing was identified, and
\* no table.
C18_EmptySectionShape ==
    /\ (pc = "built" /\ NoFindings) =>
            /\ Cardinality(StyledAt(contentXml, st.h1)) = 1
            /\ StyledAt(contentXml, st.h2) = {}
            /\ StyledAt(contentXml, st.bullet) = {}
            /\ Len(RunTexts(contentXml)) = 2
            /\ RunTexts(contentXml)[1] = xmlEsc(scopeList[1].label)
            /\ SaysNoFindings(RunTexts(contentXml)[2])
            /\ Includes(contentXml, StyledRun(st.body) \o RunTexts(contentXml)[2])
            /\ Occurrences(contentXml, "<w:tbl") = {}
    /\ (pc = "docx" /\ NoFindings) =>
            /\ Cardinality(Places(children, IsHeading)) = 1
            /\ Cardinality(Places(children, IsNoFindingsBody)) = 1
            /\ Places(children, IsTable) = {}
            /\ Places(children, IsBullet) = {}

\* the custom scope with no entry in the result map, built by the template export
C18_Witness ==
    /\ pc = "built"
    /\ scopeList[1] = CustomScope
    /\ resultMap = NoFiles
    /\ RunTexts(contentXml) =
            <<"Licensing &lt;cost&gt;", "No licensing &lt;cost&gt; identified in this document.">>

BuiltInIds ==
    {"new_features", "deprecated", "deployment_changes", "security", "breaking_changes",
     "migration_guide"}

IsCustom(scope) == scope.id \notin BuiltInIds

\* the character an entity of the markup stands for
EntityAt(s) ==
    CASE StartsWith(s, "&amp;") -> [text |-> "&", len |-> 5]
      [] StartsWith(s, "&lt;") -> [text |-> "<", len |-> 4]
      [] StartsWith(s, "&gt;") -> [text |-> ">", len |-> 4]
      [] StartsWith(s, "&quot;") -> [text |-> "\"", len |-> 6]
      [] OTHER -> [text |-> "&", len |-> 1]

\* the text a reader of the document sees for the text of a run
RECURSIVE Shown(_)
ShownFrom(s, i) ==
    IF i = -1 THEN s
    ELSE LET e == EntityAt(SliceFrom(s, i))
         IN  Slice(s, 0, i) \o e.text \o Shown(SliceFrom(s, i + e.len))

Shown(s) == ShownFrom(s, IndexOf(s, "&"))

\* C19: for a custom scope (an identifier that is none of the built-in ones) with at
\* least one finding, the section is one heading followed by exactly one bulleted
\* paragraph per finding, carrying the text of that finding unchanged, in the order of
\* the findings, and no table.
C19_CustomScopeBullets ==
    (pc = "built" /\ IsCustom(scopeList[1]) /\ ~NoFindings) =>
        LET bullets == BulletsOf(resultMap, scopeList[1].id)
            texts == RunTexts(contentXml)
        IN  /\ StartsWith(contentXml, H1Open(st))
            /\ Cardinality(StyledAt(contentXml, st.h1)) = 1
            /\ StyledAt(contentXml, st.h2) = {}
            /\ Occurrences(contentXml, "<w:tbl") = {}
            /\ Cardinality(StyledAt(contentXml, st.bullet)) = Len(bullets)
            /\ Len(texts) = Len(bullets) + 1
            /\ Shown(texts[1]) = scopeList[1].label
            /\ \A k \in 1..Len(bullets) :
                    /\ Shown(texts[k + 1]) = bullets[k]
                    /\ Includes(contentXml, StyledRun(st.bullet) \o texts[k + 1])

\* two different findings, one of them with characters the markup escapes
C19_Witness ==
    /\ pc = "built"
    /\ scopeList[1] = CustomScope
    /\ resultMap = Single(CustomScope.id, <<"Beta <tool> retired", "Alpha module added">>)
    /\ RunTexts(contentXml) =
            <<"Licensing &lt;cost&gt;", "Beta &lt;tool&gt; retired", "Alpha module added">>

TabularIds == {"deprecated", "deployment_changes", "security", "migration_guide"}

\* the number written in the markup at index a, up to the closing quote
WidthAt(content, a) == NumberOf(Slice(content, a, IndexOfFrom(content, "\"", a)))

\* the numbers of the attributes of the markup that open with the given text, in
\* their order
WidthsOf(content, open) ==
    LET at == Occurrences(content, open)
    IN  [k \in 1..Cardinality(at) |-> WidthAt(content, Nth(at, k) + Len(open))]

RECURSIVE SumOf(_)
SumOf(ws) == IF Len(ws) = 0 THEN 0 ELSE ws[1] + SumOf(Tail(ws))

\* the widths of the three columns of the table of each tabular scope
FixedWidths ==
    [id \in TabularIds |->
        CASE id = "deprecated" -> <<3200, 1500, 4259>>
          [] id = "deployment_changes" -> <<3136, 1800, 4023>>
          [] id = "security" -> <<5500, 1600, 1859>>
          [] id = "migration_guide" -> <<2400, 5159, 1400>>]

NameChars == AlphaNum \cup {":", "_", "-", "."}

\* the index after the name that starts at i, -1 when it does not end within reach
NameEnd(xml, i) ==
    FirstOf({j \in i..(i + SearchWindow) : CharAt(xml, j) \notin NameChars})

BadTag(at) == [ok |-> FALSE, empty |-> FALSE, end |-> at]

\* the attributes of a start tag from index j to its end: each one a blank, a name,
\* an equals sign and a quoted value with no "<" in it
RECURSIVE AttrsFrom(_, _)
AttrValueAt(xml, v, q) ==
    IF q = -1 \/ Includes(Slice(xml, v, q), "<") THEN BadTag(v) ELSE AttrsFrom(xml, q + 1)

AttrAt(xml, a, e) ==
    IF e <= a \/ ~StartsAt(xml, "=\"", e) THEN BadTag(a)
    ELSE AttrValueAt(xml, e + 2, SearchFrom(xml, "\"", e + 2))

AttrsFrom(xml, j) ==
    IF CharAt(xml, j) = ">" THEN [ok |-> TRUE, empty |-> FALSE, end |-> j + 1]
    ELSE IF StartsAt(xml, "/>", j) THEN [ok |-> TRUE, empty |-> TRUE, end |-> j + 2]
    ELSE IF CharAt(xml, j) = " " THEN AttrAt(xml, j + 1, NameEnd(xml, j + 1))
    ELSE BadTag(j)

\* What a stretch of markup leaves open: the end tags with no start tag in it, the
\* start tags with no end tag in it, where its first tag starts and its last tag ends
\* (-1: no tag), and whether its tags are sound and close one another in order.
NoTags == [ok |-> TRUE, closes |-> <<>>, opens |-> <<>>, first |-> -1, end |-> -1]

BrokenAt(p) == [ok |-> FALSE, closes |-> <<>>, opens |-> <<>>, first |-> p, end |-> p + 1]

EndTag(xml, p, e) ==
    IF e > p + 2 /\ CharAt(xml, e) = ">"
    THEN [ok |-> TRUE, closes |-> <<Slice(xml, p + 2, e)>>, opens |-> <<>>, first |-> p,
          end |-> e + 1]
    ELSE BrokenAt(p)

StartTagOf(p, name, t) ==
    [ok |-> t.ok, closes |-> <<>>,
     opens |-> IF t.ok /\ ~t.empty THEN <<name>> ELSE <<>>,
     first |-> p, end |-> IF t.end > p THEN t.end ELSE p + 1]

StartTag(xml, p, e) ==
    IF e <= p + 1 THEN BrokenAt(p)
    ELSE StartTagOf(p, Slice(xml, p + 1, e), AttrsFrom(xml, e))

XmlTagAt(xml, p) ==
    IF StartsAt(xml, "</", p) THEN EndTag(xml, p, NameEnd(xml, p + 2))
    ELSE StartTag(xml, p, NameEnd(xml, p + 1))

MinLen(a, b) == IF Len(a) < Len(b) THEN Len(a) ELSE Len(b)

\* the stretch l followed by the stretch r: the last start tags of l meet the first
\* end tags of r, name by name, and no tag of r starts inside a tag of l
JoinedBy(l, r, m) ==
    [ok |-> /\ l.ok
            /\ r.ok
            /\ l.end <= r.first
            /\ \A i \in 1..m : l.opens[Len(l.opens) - i + 1] = r.closes[i],
     closes |-> l.closes \o SubSeq(r.closes, m + 1, Len(r.closes)),
     opens |-> SubSeq(l.opens, 1, Len(l.opens) - m) \o r.opens,
     first |-> l.first,
     end |-> r.end]

Joined(l, r) ==
    IF r.first = -1 THEN l
    ELSE IF l.first = -1 THEN r
    ELSE JoinedBy(l, r, MinLen(l.opens, r.closes))

\* the tags that start at the indices a .. b - 1 of the markup
RECURSIVE TagsIn(_, _, _)
TagsIn(xml, a, b) ==
    IF b <= a THEN NoTags
    ELSE IF b = a + 1 THEN (IF CharAt(xml, a) = "<" THEN XmlTagAt(xml, a) ELSE NoTags)
    ELSE Joined(TagsIn(xml, a, (a + b) \div 2), TagsIn(xml, (a + b) \div 2, b))

Balanced(t) == t.ok /\ t.closes = <<>> /\ t.opens = <<>>

\* every "&" of the markup opens one of the entities
EntitiesSound(xml) ==
    \A i \in Occurrences(xml, "&") :
        \E e \in {"&amp;", "&lt;", "&gt;", "&quot;", "&apos;"} : StartsAt(xml, e, i)

\* every element opened is closed, in nested order, every tag and attribute is sound
WellFormedXml(xml) == EntitiesSound(xml) /\ Balanced(TagsIn(xml, 0, Len(xml)))

\* the elements of the markup: how many start tags it has
ElementCount(xml) == Cardinality(Occurrences(xml, "<")) - Cardinality(Occurrences(xml, "</"))

\* ------------------------------------------------------------------------
\* The markup of one scope under the styles of an uploaded template
\* ------------------------------------------------------------------------

\* a finding with each of the characters the markup escapes
EscapedFinding == "Ports <any> & \"all\" ranges > 1024 closed"

MarkupFindingLists ==
    FindingLists \cup {<<EscapedFinding>>, <<"Beta <tool> retired", EscapedFinding>>}

\* a well-formed style catalogue that keeps an earlier style block in a comment
CommentedStyles ==
    "<w:styles><!-- was: <w:style w:styleId=\"H<1\"><w:name w:val=\"heading 1\"/>"
        \o "</w:style> --><w:style w:styleId=\"Corps\"><w:name w:val=\"Body Text\"/>"
        \o "</w:style></w:styles>"

MarkupUploads ==
    {UploadFiles(NoCatalogue, "none"), UploadFiles(<<"titre1", "body2">>, "lower"),
     Merge(Single(StylesPath, CommentedStyles), Single(DocPath, FillBodies.lower))}

\* the style maps resolved from the uploads
MarkupStyleMaps == {detectTemplateStyles(files) : files \in MarkupUploads}

\* the identifiers of the map have none of the characters that end or break an
\* attribute value
PlainStyles(styles) ==
    \A role \in DOMAIN styles : \A c \in {"<", "&", "\""} : ~Includes(styles[role], c)

InitMarkup ==
    /\ st \in MarkupStyleMaps
    /\ \E scope \in ScopeSet :
            /\ scopeList = <<scope>>
            /\ resultMap \in {Single(scope.id, list) : list \in MarkupFindingLists}
    /\ templateParts = <<>>
    /\ templateBuffer = NotAZip
    /\ docTitle \in {t \in Titles : t.title = "" /\ t.subtitle = ""}
    /\ JSZipCached = FALSE
    /\ zip = NoFiles
    /\ docXml = ""
    /\ contentXml = ""
    /\ newDocXml = ""
    /\ children = <<>>
    /\ error = ""
    /\ alerts = <<>>
    /\ downloads = <<>>
    /\ docName = "notes v2.pdf"
    /\ pc = "build"
    /\ OutsideIdle

SpecMarkup == InitMarkup /\ [][BuildScope]_vars

\* C21: for every scope, every list of findings (with the characters &, <, > and " in
\* them) and every resolved style map, the markup built is well-formed: every element
\* opened is closed in nested order, and the text of a finding neither adds an element
\* nor breaks an attribute.
C21_MarkupWellFormed == pc = "built" => WellFormedXml(contentXml)

\* the heading style resolved from the commented block is written into the attribute
\* as it is
C21_Witness ==
    /\ pc = "built"
    /\ st.h1 = "H<1"
    /\ Includes(contentXml, "<w:pStyle w:val=\"H<1\"/>")
    /\ ~WellFormedXml(contentXml)

\* with identifiers free of markup characters the markup is well-formed, and the
\* findings with markup characters leave as many elements as the findings
\* of equal number without them
MarkupWellFormedPlain ==
    (pc = "built" /\ PlainStyles(st)) =>
        /\ WellFormedXml(contentXml)
        /\ ElementCount(contentXml) =
                ElementCount(buildScopeXml(scopeList[1],
                                           [k \in 1..Len(BulletsOf(resultMap, scopeList[1].id)) |->
                                                "Alpha module added"], st))

\* ------------------------------------------------------------------------
\* Two export calls under way at once
\* ------------------------------------------------------------------------

\* what a call of exportWithTemplate was given, and its locals at its first await
CallOf(buffer, scopes, results, name, title, styles) ==
    [pc |-> "idle", buffer |-> buffer, scopeList |-> scopes, resultMap |-> results,
     docName |-> name, docTitle |-> title, st |-> styles, zip |-> NoFiles, docXml |-> "",
     contentXml |-> "", newDocXml |-> "", error |-> ""]

PatchPcs == {PcOf(PatchOrder[k]) : k \in 1..Len(PatchOrder)}

PatchIndex(at) == CHOOSE k \in 1..Len(PatchOrder) : PcOf(PatchOrder[k]) = at

PatchPattern(k) ==
    CASE k = 1 -> CustomXmlRelPattern
      [] k = 2 -> CustomXmlOverridePattern
      [] k = 3 -> DotmRelPattern
      [] k = 4 -> AttachedTemplatePattern

\* the call runs on with its archive to the next await after patch k - 1
ContinuedWith(c, files, at) ==
    [c EXCEPT !.zip = files, !.pc = at,
              !.error = IF at = "rejected" THEN NoDocMessage ELSE @]

Continued(c, files, k) == ContinuedWith(c, files, NextAwait(files, k))

Patched(c, k) ==
    Continued(c, PutPart(c.zip, PatchOrder[k], RemoveMatches(c.zip[PatchOrder[k]], PatchPattern(k))),
              k + 1)

WithBody(c, doc, content) ==
    [c EXCEPT !.docXml = doc, !.contentXml = content, !.newDocXml = Splice(doc, content),
              !.zip = PutPart(c.zip, DocPath, Splice(doc, content)), !.pc = "generate"]

\* exportWithTemplate from one await of the call to the next, on the call's own
\* archive and locals
ExportStep(c) ==
    CASE c.pc = "loadAsync" ->
            IF c.buffer.zip THEN Continued(c, StripCustomXml(c.buffer.files), 1)
            ELSE [c EXCEPT !.pc = "rejected", !.error = NotAZipMessage]
      [] c.pc \in PatchPcs -> Patched(c, PatchIndex(c.pc))
      [] c.pc = "document" ->
            WithBody(c, updateCoverTitle(c.zip[DocPath], c.docTitle),
                    ContentXml(c.scopeList, c.resultMap, c.st))

\* an export step of the second call that writes into the archive of the first
OtherAwaitShared ==
    /\ other.pc \in {"loadAsync", "document"} \cup PatchPcs
    /\ other' = ExportStep(other)
    /\ zip' = IF pc \in {"idle", "loadJSZip", "loadAsync"} THEN zip ELSE other'.zip
    /\ UNCHANGED <<analysis, args, JSZipCached, pc, docXml, contentXml, newDocXml, children, error,
                   alerts, downloads>>

OtherHandleWordExport ==
    /\ other.pc = "idle"
    /\ other' = [other EXCEPT !.pc = "loadJSZip"]
    /\ UNCHANGED <<analysis, args, JSZipCached, pc, zip, locals, error, alerts, downloads>>

OtherLoadJSZip ==
    /\ other.pc = "loadJSZip"
    /\ JSZipCached' = TRUE
    /\ other' = [other EXCEPT !.pc = "loadAsync"]
    /\ UNCHANGED <<analysis, args, pc, zip, locals, error, alerts, downloads>>

OtherAwait ==
    /\ other.pc \in {"loadAsync", "document"} \cup PatchPcs
    /\ other' = ExportStep(other)
    /\ UNCHANGED <<analysis, args, JSZipCached, pc, zip, locals, error, alerts, downloads>>

OtherGenerate ==
    /\ other.pc = "generate"
    /\ downloads' = Append(downloads,
            [name |-> "ReleaseLens_" \o SafeName(other.docTitle, other.docName),
             files |-> other.zip])
    /\ other' = [other EXCEPT !.pc = "done"]
    /\ UNCHANGED <<analysis, args, JSZipCached, pc, zip, locals, error, alerts>>

OtherCatchExport ==
    /\ other.pc = "rejected"
    /\ alerts' = Append(alerts, "Export failed: " \o other.error)
    /\ other' = [other EXCEPT !.pc = "failed"]
    /\ UNCHANGED <<analysis, args, JSZipCached, pc, zip, locals, error, downloads>>

\* the templates of the two calls: the built-in one, an uploaded one with parts to
\* patch, and an uploaded one with no document part
PairTemplates ==
    <<BodyOnly(DefaultBodyParts),
      ZipBuffer(Archive(TRUE, "tagged", "tagged", "tagged", "tagged", <<"titleAttr", "sect">>,
                        TRUE)),
      ZipBuffer(Archive(FALSE, "plain", "none", "none", "none", DefaultBodyParts, FALSE))>>

PairStyles(t) == IF t = 1 THEN DEFAULT_STYLES ELSE UploadedStyles

InitOther ==
    \E t \in 1..Len(PairTemplates) :
        other = CallOf(PairTemplates[t], <<AllScopes[4]>>,
                       Single(AllScopes[4].id, <<"Beta <tool> retired">>), "guide.pdf",
                       [title |-> "Dell R&D 1.x", subtitle |-> "Guide <a>", revision |-> "A03"],
                       PairStyles(t))

\* the second call is made with the same template or another one, on the results of
\* another document
InitPair ==
    /\ IdleCall
    /\ InitOther
    /\ AnalysisStart
    /\ quota = 0
    /\ \E t \in 1..Len(PairTemplates) :
            /\ templateBuffer = PairTemplates[t]
            /\ templateParts = IF t = 2 THEN <<"titleAttr", "sect">> ELSE DefaultBodyParts
            /\ st = PairStyles(t)
    /\ docTitle \in {t \in Titles : t.title = "" /\ t.subtitle = ""}
    /\ scopeList = FixedScopes
    /\ resultMap = FixedResults
    /\ JSZipCached \in BOOLEAN

NextPair ==
    \/ Next
    \/ OtherHandleWordExport
    \/ OtherLoadJSZip
    \/ OtherAwait
    \/ OtherGenerate
    \/ OtherCatchExport

SpecPair == InitPair /\ [][NextPair]_vars

\* the call run alone from its first await up to the await named, or to its end
RECURSIVE ExportRunTo(_, _)
ExportRunTo(c, at) ==
    IF c.pc = at \/ c.pc \in {"generate", "rejected"} THEN c
    ELSE ExportRunTo(ExportStep(c), at)

ExportAlone(c) == ExportRunTo([c EXCEPT !.pc = "loadAsync"], "generate")

DownloadOf(c) ==
    [name |-> "ReleaseLens_" \o SafeName(c.docTitle, c.docName), files |-> ExportAlone(c).zip]

AlertOf(c) == "Export failed: " \o ExportAlone(c).error

\* what the first call was given, as a call record
FirstCall == CallOf(templateBuffer, scopeList, resultMap, docName, docTitle, st)

OtherCall ==
    CallOf(other.buffer, other.scopeList, other.resultMap, other.docName, other.docTitle,
           other.st)

Awaiting == {"loadAsync", "document", "generate", "rejected"} \cup PatchPcs

Range(seq) == {seq[n] : n \in 1..Len(seq)}

CountOf(flags) == Cardinality({n \in 1..Len(flags) : flags[n]})

PairFrame == [][(other' # other => <<pc, zip, locals, error>>' = <<pc, zip, locals, error>>)
                    /\ (zip' # zip => other' = other)]_vars

\* ------------------------------------------------------------------------
\* The analysis: runAnalysis, callClaude, callClaudeWithText and reset
\* ------------------------------------------------------------------------

NoTitle == [title |-> "", subtitle |-> "", revision |-> ""]

\* the scope list of a render: the selected built-in scopes, then the custom ones
ScopeById(id) == CHOOSE s \in {ANALYSIS_SCOPES[k] : k \in 1..Len(ANALYSIS_SCOPES)} : s.id = id

ScopeListOf(selected, custom) ==
    [k \in 1..Len(selected) |-> ScopeById(selected[k])] \o custom

\* canRun
CanRun(name, url, selected, custom) ==
    (name # "" \/ Trim(url) # "") /\ (Len(selected) > 0 \/ Len(custom) > 0)

\* the attempts of one scope call, the seconds of the pause between two scopes
MaxAttempts == 4

RetryStepMs == 15000

PauseSecs == 15

\* the state the handlers of the analysis read and write, as one record
Cur ==
    [step |-> step, resultMap |-> resultMap, streamingId |-> streamingId,
     activeScopeId |-> activeScopeId, totalFindings |-> totalFindings,
     analysisError |-> analysisError, analysisProgress |-> analysisProgress,
     analysisPhase |-> analysisPhase, currentScopeIdx |-> currentScopeIdx,
     docTitle |-> docTitle, abortRef |-> abortRef, controllers |-> controllers,
     requests |-> requests, runs |-> runs, quota |-> quota, clock |-> clock]

Commit(w) ==
    /\ step' = w.step
    /\ resultMap' = w.resultMap
    /\ streamingId' = w.streamingId
    /\ activeScopeId' = w.activeScopeId
    /\ totalFindings' = w.totalFindings
    /\ analysisError' = w.analysisError
    /\ analysisProgress' = w.analysisProgress
    /\ analysisPhase' = w.analysisPhase
    /\ currentScopeIdx' = w.currentScopeIdx
    /\ docTitle' = w.docTitle
    /\ abortRef' = w.abortRef
    /\ controllers' = w.controllers
    /\ requests' = w.requests
    /\ runs' = w.runs
    /\ quota' = w.quota
    /\ clock' = w.clock

\* what a run leaves alone: the inputs, the template and the export
beside ==
    <<docType, urlInput, fileName, docName, selectedScopes, customScopes, scopeList,
      templateBuffer, templateParts, st, JSZipCached, pc, zip, locals, error, alerts,
      downloads, other>>

\* a run of runAnalysis: the inputs of the render it was started from and its locals
NewRun ==
    [pc |-> "start", docType |-> docType, file |-> fileName # "", url |-> urlInput,
     ordered |-> selectedScopes, custom |-> customScopes, i |-> 0, total |-> 0, attempt |-> 0, remaining |-> 0,
     ctl |-> 0, resp |-> 0, lastErr |-> Null, ticker |-> TRUE, fakeP |-> 0,
     fullText |-> "", outcome |-> ""]

Aborted(w, r) == w.runs[r].ctl # 0 /\ w.controllers[w.runs[r].ctl]

ScopeIdOf(run) == run.ordered[run.i + 1]

\* finally { clearInterval(ticker); setAnalysisProgress(100); setStreamingId(null) }
Finally(w, r, outcome) ==
    [w EXCEPT !.analysisProgress = 100, !.streamingId = Null,
              !.runs[r].ticker = FALSE, !.runs[r].fakeP = 0, !.runs[r].pc = "done",
              !.runs[r].outcome = outcome]

\* a catch that swallows every error
CatchSilent(w, r, name, message) ==
    Finally(w, r, IF name # "AbortError" THEN "failed" ELSE "aborted")

\* catch (e) { clearInterval(ticker); if (e.name !== "AbortError") { ... } }
Catch(w, r, name, message) ==
    IF name # "AbortError"
    THEN Finally([w EXCEPT !.analysisError = "Analysis failed: " \o message, !.step = "home"],
                 r, "failed")
    ELSE Finally(w, r, "aborted")

\* fetch(...) with the signal of the call: a request goes out unless the signal is
\* aborted already, and then the fetch rejects at once
SendFetch(w, r) ==
    IF Aborted(w, r) THEN Catch(w, r, "AbortError", "Aborted")
    ELSE [w EXCEPT !.requests = Append(@, [run |-> r, kind |-> "scope",
                                           scope |-> ScopeIdOf(w.runs[r]),
                                           attempt |-> w.runs[r].attempt, at |-> w.clock]),
                   !.runs[r].pc = "fetch"]

\* the head of the scope loop and callClaude: a new controller for the call
StartScope(w, r) ==
    SendFetch([w EXCEPT !.streamingId = ScopeIdOf(w.runs[r]),
                        !.currentScopeIdx = w.runs[r].i,
                        !.activeScopeId = ScopeIdOf(w.runs[r]),
                        !.controllers = Append(@, FALSE),
                        !.abortRef = Len(w.controllers) + 1,
                        !.runs[r].ctl = Len(w.controllers) + 1,
                        !.runs[r].attempt = 0,
                        !.runs[r].resp = 0,
                        !.runs[r].lastErr = Null], r)

InitMap(ordered) == [id \in {ordered[k] : k \in 1..Len(ordered)} |-> <<>>]

\* from clearInterval(ticker) to the first scope call
AfterText(w, r) ==
    IF Len(w.runs[r].ordered) = 0
    THEN Finally([w EXCEPT !.analysisProgress = 95, !.analysisPhase = "Building report...",
                           !.resultMap = InitMap(w.runs[r].ordered), !.step = "results",
                           !.activeScopeId = Undefined, !.runs[r].ticker = FALSE], r, "ok")
    ELSE StartScope([w EXCEPT !.analysisProgress = 95, !.analysisPhase = "Building report...",
                              !.resultMap = InitMap(w.runs[r].ordered), !.step = "results",
                              !.activeScopeId = w.runs[r].ordered[1],
                              !.runs[r].ticker = FALSE, !.runs[r].fakeP = 0], r)

\* extractDocTitle sends its request and is awaited
AskTitle(w, r) ==
    [w EXCEPT !.analysisPhase = "Identifying document title...",
              !.requests = Append(@, [run |-> r, kind |-> "title", scope |-> Null,
                                      attempt |-> 0, at |-> w.clock]),
              !.runs[r].pc = "title"]

\* the body of runAnalysis up to its first await
Started(w, r) ==
    IF w.runs[r].docType = "pdf" /\ w.runs[r].file
    THEN [w EXCEPT !.analysisPhase = "Loading PDF parser...", !.runs[r].pc = "extract"]
    ELSE IF w.runs[r].docType = "url" /\ Trim(w.runs[r].url) # ""
    THEN [w EXCEPT !.analysisPhase = "Fetching documentation page...",
                   !.requests = Append(@, [run |-> r, kind |-> "url", scope |-> Null,
                                           attempt |-> 0, at |-> w.clock]),
                   !.runs[r].pc = "fetchUrl"]
    ELSE AfterText(w, r)

RetryPhase(ms) == "Rate limited ~ retrying in " \o ToString((ms + 999) \div 1000) \o "s..."

PausePhase(s) == "Rate limit pause ~ next scope in " \o ToString(s) \o "s..."

\* a retry loop with one attempt more
RetryOnceMore(w, r) ==
    IF w.runs[r].attempt < MaxAttempts + 1
    THEN [w EXCEPT !.analysisPhase = RetryPhase(w.runs[r].attempt * RetryStepMs),
                   !.runs[r].remaining = w.runs[r].attempt * RetryStepMs,
                   !.runs[r].pc = "wait"]
    ELSE Catch(w, r, "Error", w.runs[r].lastErr)

\* the retry loop from "continue" on: the next attempt waits, the fourth failure throws
Retry(w, r) ==
    IF w.runs[r].attempt < MaxAttempts
    THEN IF Aborted(w, r) THEN Catch(w, r, "AbortError", "Aborted")
    ELSE [w EXCEPT !.analysisPhase = RetryPhase(w.runs[r].attempt * RetryStepMs),
                   !.runs[r].remaining = w.runs[r].attempt * RetryStepMs,
                   !.runs[r].pc = "wait"]
    ELSE Catch(w, r, "Error", w.runs[r].lastErr)

\* the findings of a scope call are in: the total, the result map, and the pause
\* before the next scope or the end of the run
Completed(w, r, bullets) ==
    IF w.runs[r].i < Len(w.runs[r].ordered) - 1
    THEN [w EXCEPT !.totalFindings = w.runs[r].total + Len(bullets),
                   !.resultMap = PutPart(@, ScopeIdOf(w.runs[r]), bullets),
                   !.streamingId = w.runs[r].ordered[w.runs[r].i + 2],
                   !.currentScopeIdx = w.runs[r].i + 1,
                   !.activeScopeId = w.runs[r].ordered[w.runs[r].i + 2],
                   !.analysisPhase = PausePhase(PauseSecs),
                   !.runs[r].total = @ + Len(bullets),
                   !.runs[r].remaining = PauseSecs,
                   !.runs[r].pc = "pause"]
    ELSE Finally([w EXCEPT !.totalFindings = w.runs[r].total + Len(bullets),
                           !.resultMap = PutPart(@, ScopeIdOf(w.runs[r]), bullets),
                           !.runs[r].total = @ + Len(bullets)], r, "ok")

\* what the API answers for a scope
ApiFindings(id) ==
    IF id = "new_features" THEN <<"Alpha module added", "Beta <tool> retired">>
    ELSE <<"Alpha module added">>

\* e?.error?.message || "Rate limit exceeded": a 429 comes without a message in its
\* body, a 529 with one
RateLimitMessage(status) == IF status = 529 THEN "Overloaded" ELSE "Rate limit exceeded"

\* the answer to the request of a scope call: 0 stands for a fetch that fails
Answered(w, r, status) ==
    IF status \in {429, 529}
    THEN Retry([w EXCEPT !.quota = @ - 1, !.runs[r].resp = status,
                         !.runs[r].lastErr = RateLimitMessage(status),
                         !.runs[r].attempt = @ + 1], r)
    ELSE IF status = 0 THEN Catch(w, r, "TypeError", "Failed to fetch")
    ELSE IF status # 200
    THEN Catch([w EXCEPT !.runs[r].resp = status], r, "Error",
               "API error " \o ToString(status))
    ELSE Completed([w EXCEPT !.runs[r].resp = status, !.runs[r].lastErr = Null], r,
                   ApiFindings(ScopeIdOf(w.runs[r])))

\* a retry wait that ends with its first second
WaitedOnce(w, r) ==
    IF Aborted(w, r) THEN Catch(w, r, "AbortError", "Aborted") ELSE SendFetch(w, r)

\* one second of a retry wait has passed
Waited(w, r) ==
    IF w.runs[r].remaining > 0
    THEN (IF Aborted(w, r) THEN Catch(w, r, "AbortError", "Aborted")
          ELSE [w EXCEPT !.analysisPhase = RetryPhase(w.runs[r].remaining)])
    ELSE SendFetch(w, r)

\* one second of the pause between two scopes has passed
Paused(w, r) ==
    IF w.runs[r].remaining > 0
    THEN [w EXCEPT !.analysisPhase = PausePhase(w.runs[r].remaining)]
    ELSE StartScope([w EXCEPT !.analysisPhase = "", !.runs[r].i = @ + 1], r)

\* the run with the given index is at the await named
At(r, where) == r \in 1..Len(runs) /\ runs[r].pc = where

Active(r) == r \in 1..Len(runs) /\ runs[r].pc # "done"

\* onClick={runAnalysis} on the confirm screen; one run is followed, from its start
\* to its end
RunAnalysis ==
    /\ step = "confirm"
    /\ runs = <<>>
    /\ Commit(Started([Cur EXCEPT !.step = "analyzing", !.resultMap = NoFiles,
                                  !.streamingId = Null, !.totalFindings = 0,
                                  !.analysisProgress = 0, !.runs = Append(@, NewRun)],
                      Len(runs) + 1))
    /\ UNCHANGED beside

\* the ticker started by runAnalysis fires: the progress shown rises to one of the
\* levels and the phase follows it
TickerLevels == {1, 88}

TickerPhases ==
    <<"Reading document...", "Extracting text content...", "Indexing sections...",
      "Running semantic analysis...", "Generating findings...">>

MinNat(a, b) == IF a < b THEN a ELSE b

Tick ==
    \E r \in 1..Len(runs) : \E level \in TickerLevels :
        /\ runs[r].ticker
        /\ level > runs[r].fakeP
        /\ Commit([Cur EXCEPT !.runs[r].fakeP = level, !.analysisProgress = level,
                              !.analysisPhase = TickerPhases[MinNat(level \div 20, 4) + 1]])
        /\ UNCHANGED beside

\* the texts extractPdfText and fetchUrlText may give
Texts == {"", "Release 2.0 notes"}

\* extractPdfText resolves; its progress callback has reported the last page
ExtractResolves ==
    \E r \in 1..Len(runs) : \E text \in Texts :
        /\ At(r, "extract")
        /\ Commit(IF Trim(text) = ""
                  THEN Catch([Cur EXCEPT !.analysisPhase = "Extracting text: page 2 of 2...",
                                         !.analysisProgress = 40], r, "Error",
                             "Could not extract text from PDF. The file may be scanned/image-only.")
                  ELSE [Cur EXCEPT !.analysisPhase =
                                        "Text extracted ~ " \o ToString((Len(text) + 500) \div 1000)
                                            \o "k chars",
                                   !.analysisProgress = 40,
                                   !.runs[r].fullText = text,
                                   !.runs[r].pc = "settle"])
        /\ UNCHANGED beside

\* extractPdfText or fetchUrlText rejects
TextRejects ==
    \E r \in 1..Len(runs) :
        /\ At(r, "extract") \/ At(r, "fetchUrl")
        /\ Commit(Catch(Cur, r, "Error", "Failed to load the document"))
        /\ UNCHANGED beside

\* the 400 ms after the extraction have passed
Settle ==
    \E r \in 1..Len(runs) :
        /\ At(r, "settle")
        /\ Commit(AskTitle([Cur EXCEPT !.clock = @ + 400], r))
        /\ UNCHANGED beside

\* fetchUrlText resolves, with whatever text the page gave
FetchUrlResolves ==
    \E r \in 1..Len(runs) : \E text \in Texts :
        /\ At(r, "fetchUrl")
        /\ Commit(AskTitle([Cur EXCEPT !.runs[r].fullText = text], r))
        /\ UNCHANGED beside

ExtractedTitle == [title |-> "Dell R&D 1.x", subtitle |-> "Guide <a>", revision |-> "A03"]

\* extractDocTitle resolves with a title or with null
TitleResolves ==
    \E r \in 1..Len(runs) : \E extracted \in {NoTitle, ExtractedTitle} :
        /\ At(r, "title")
        /\ Commit(AfterText([Cur EXCEPT !.docTitle = IF extracted = NoTitle THEN @ ELSE extracted],
                            r))
        /\ UNCHANGED beside

\* the answers of the API to a scope call
Statuses == {200, 429, 529, 500, 0}

FetchResolves ==
    \E r \in 1..Len(runs) : \E status \in Statuses :
        /\ At(r, "fetch")
        /\ ~Aborted(Cur, r)
        /\ status \in {429, 529} => quota > 0
        /\ Commit(Answered(Cur, r, status))
        /\ UNCHANGED beside

\* the fetch under way rejects because its signal was aborted
FetchAborted ==
    \E r \in 1..Len(runs) :
        /\ At(r, "fetch")
        /\ Aborted(Cur, r)
        /\ Commit(Catch(Cur, r, "AbortError", "The user aborted a request."))
        /\ UNCHANGED beside

\* the one-second timer of a retry wait fires
WaitTick ==
    \E r \in 1..Len(runs) :
        /\ At(r, "wait")
        /\ Commit(Waited([Cur EXCEPT !.clock = @ + 1000, !.runs[r].remaining = @ - 1000], r))
        /\ UNCHANGED beside

\* the one-second timer of the pause between two scopes fires
PauseTick ==
    \E r \in 1..Len(runs) :
        /\ At(r, "pause")
        /\ Commit(Paused([Cur EXCEPT !.clock = @ + 1000, !.runs[r].remaining = @ - 1], r))
        /\ UNCHANGED beside

\* reset: the controller of the last scope call is aborted and the inputs, the
\* analysis and the results go back to their first values; the template stays
Reset ==
    /\ step # "home"
    /\ Commit([Cur EXCEPT !.step = "home", !.resultMap = NoFiles, !.streamingId = Null,
                          !.activeScopeId = Null, !.totalFindings = 0,
                          !.analysisError = Null, !.analysisProgress = 0,
                          !.currentScopeIdx = 0, !.docTitle = NoTitle,
                          !.controllers = IF abortRef = 0 THEN @
                                          ELSE [@ EXCEPT ![abortRef] = TRUE]])
    /\ docType' = "pdf"
    /\ urlInput' = ""
    /\ fileName' = ""
    /\ docName' = ""
    /\ selectedScopes' = DefaultSelection
    /\ customScopes' = <<>>
    /\ scopeList' = ScopeListOf(DefaultSelection, <<>>)
    /\ UNCHANGED <<templateBuffer, templateParts, st, JSZipCached, pc, zip, locals, error,
                   alerts, downloads, other>>

\* What the handlers of the home screen leave alone.  The inputs are followed up to
\* the start of the run.
inputsAside ==
    <<step, resultMap, streamingId, activeScopeId, totalFindings, analysisError,
      analysisProgress, analysisPhase, currentScopeIdx, docTitle, abortRef, controllers,
      requests, runs, quota, clock, templateBuffer, templateParts, st, JSZipCached, pc, zip,
      locals, error, alerts, downloads, other>>

\* handleFileSelect
HandleFileSelect ==
    /\ step = "home"
    /\ runs = <<>>
    /\ fileName = ""
    /\ fileName' = "notes v2.pdf"
    /\ docName' = "notes v2.pdf"
    /\ UNCHANGED <<docType, urlInput, selectedScopes, customScopes, scopeList>>
    /\ UNCHANGED inputsAside

\* the URL tab is chosen and an address typed
EnterUrl ==
    /\ step = "home"
    /\ runs = <<>>
    /\ docType = "pdf"
    /\ docType' = "url"
    /\ \E url \in {"", "https://vendor.example/notes"} :
            /\ urlInput' = url
            /\ docName' = OrElse(fileName, url)
    /\ UNCHANGED <<fileName, selectedScopes, customScopes, scopeList>>
    /\ UNCHANGED inputsAside

\* the scopes the user switches on and off
Toggled == {"deployment_changes", "deprecated"}

Without(seq, id) == SelectSeq(seq, LAMBDA x : x # id)

\* toggleScope: a Set keeps the order of insertion
ToggleScope ==
    /\ step = "home"
    /\ runs = <<>>
    /\ \E id \in Toggled :
            /\ selectedScopes' = IF id \in {selectedScopes[k] : k \in 1..Len(selectedScopes)}
                                 THEN Without(selectedScopes, id)
                                 ELSE Append(selectedScopes, id)
            /\ scopeList' = ScopeListOf(selectedScopes', customScopes)
    /\ UNCHANGED <<docType, urlInput, fileName, docName, customScopes>>
    /\ UNCHANGED inputsAside

\* addCustomScope with a label typed in
AddCustomScope ==
    /\ step = "home"
    /\ runs = <<>>
    /\ customScopes = <<>>
    /\ customScopes' = <<CustomScope>>
    /\ scopeList' = ScopeListOf(selectedScopes, customScopes')
    /\ UNCHANGED <<docType, urlInput, fileName, docName, selectedScopes>>
    /\ UNCHANGED inputsAside

\* onClick={() => canRun && setStep("confirm")}
Configure ==
    /\ step = "home"
    /\ CanRun(fileName, urlInput, selectedScopes, customScopes)
    /\ step' = "confirm"
    /\ UNCHANGED <<docType, urlInput, fileName, docName, selectedScopes, customScopes,
                   scopeList>>
    /\ UNCHANGED <<resultMap, streamingId, activeScopeId, totalFindings, analysisError,
                   analysisProgress, analysisPhase, currentScopeIdx, docTitle, abortRef,
                   controllers, requests, runs, quota, clock, templateBuffer, templateParts,
                   st, JSZipCached, pc, zip, locals, error, alerts, downloads, other>>

UploadedTemplate == <<"titre1", "body2">>

\* handleTemplateUpload: the template and the styles detected in it are set
HandleTemplateUpload ==
    /\ step = "home"
    /\ runs = <<>>
    /\ templateParts = DefaultBodyParts
    /\ templateParts' = UploadedTemplate
    /\ templateBuffer' = ZipBuffer(UploadFiles(templateParts', "lower"))
    /\ st' = detectTemplateStyles(templateBuffer'.files)
    /\ UNCHANGED <<docType, urlInput, fileName, docName, selectedScopes, customScopes,
                   scopeList>>
    /\ UNCHANGED <<step, resultMap, streamingId, activeScopeId, totalFindings, analysisError,
                   analysisProgress, analysisPhase, currentScopeIdx, docTitle, abortRef,
                   controllers, requests, runs, quota, clock, JSZipCached, pc, zip, locals,
                   error, alerts, downloads, other>>

\* how many rate limits the API answers while the home screen, reset and the run are
\* followed together
MaxRateLimits == 1

\* the home screen as the component is mounted
InitRun ==
    /\ pc = "idle"
    /\ zip = NoFiles
    /\ docXml = ""
    /\ contentXml = ""
    /\ newDocXml = ""
    /\ children = <<>>
    /\ error = ""
    /\ alerts = <<>>
    /\ downloads = <<>>
    /\ JSZipCached = FALSE
    /\ other = NoCall
    /\ docTitle = NoTitle
    /\ docName = ""
    /\ resultMap = NoFiles
    /\ scopeList = ScopeListOf(DefaultSelection, <<>>)
    /\ templateParts = DefaultBodyParts
    /\ templateBuffer = BodyOnly(DefaultBodyParts)
    /\ st = DEFAULT_STYLES
    /\ AnalysisStart
    /\ quota = MaxRateLimits

RunSteps ==
    \/ Tick
    \/ ExtractResolves
    \/ TextRejects
    \/ Settle
    \/ FetchUrlResolves
    \/ TitleResolves
    \/ FetchResolves
    \/ WaitTick
    \/ PauseTick

NextRun ==
    \/ HandleFileSelect
    \/ EnterUrl
    \/ ToggleScope
    \/ AddCustomScope
    \/ HandleTemplateUpload
    \/ Configure
    \/ RunAnalysis
    \/ Reset
    \/ FetchAborted
    \/ RunSteps

SpecRun == InitRun /\ [][NextRun]_vars

\* One run of a file with the default scopes, left to itself, while the API may
\* answer as many rate limits as one scope call has attempts.
InitCall ==
    /\ pc = "idle"
    /\ zip = NoFiles
    /\ docXml = ""
    /\ contentXml = ""
    /\ newDocXml = ""
    /\ children = <<>>
    /\ error = ""
    /\ alerts = <<>>
    /\ downloads = <<>>
    /\ JSZipCached = FALSE
    /\ other = NoCall
    /\ docTitle = NoTitle
    /\ docName = ""
    /\ resultMap = NoFiles
    /\ scopeList = ScopeListOf(DefaultSelection, <<>>)
    /\ templateParts = DefaultBodyParts
    /\ templateBuffer = BodyOnly(DefaultBodyParts)
    /\ st = DEFAULT_STYLES
    /\ AnalysisStart
    /\ quota = MaxAttempts

NextCall ==
    \/ HandleFileSelect
    \/ Configure
    \/ RunAnalysis
    \/ Tick
    \/ ExtractResolves
    \/ TextRejects
    \/ Settle
    \/ TitleResolves
    \/ FetchResolves
    \/ WaitTick
    \/ PauseTick

SpecCall == InitCall /\ [][NextCall]_vars

\* ---------------------------------------------------------------------------------
\* The waits of a scope call between its attempts.  The clock counts the seconds
\* of the timers; each timer is taken to fire exactly when it is due.

ScopeRequest(k) == k \in 1..Len(requests) /\ requests[k].kind = "scope"

RetryRequest(k) == ScopeRequest(k) /\ requests[k].attempt > 0

\* C23: a scope call answered with 429 or 529 is retried with backoff: the request
\* of the first retry goes out 15 s after the request before it, that of the second
\* 30 s and that of the third 45 s after the one before, each for the same scope, and
\* no retry goes out earlier.
C23_RetryBackoff ==
    \A k \in 1..Len(requests) :
        RetryRequest(k) =>
            /\ ScopeRequest(k - 1)
            /\ requests[k - 1].run = requests[k].run
            /\ requests[k - 1].scope = requests[k].scope
            /\ requests[k - 1].attempt = requests[k].attempt - 1
            /\ requests[k].attempt \in 1..3
            /\ requests[k].at - requests[k - 1].at
                   = <<15000, 30000, 45000>>[requests[k].attempt]

\* a third retry has gone out
C23_Witness ==
    \E k \in 1..Len(requests) : RetryRequest(k) /\ requests[k].attempt = 3

\* ---------------------------------------------------------------------------------
\* The scopes a run covers.

\* the run has returned without an error
Succeeded(r) == r \in 1..Len(runs) /\ runs[r].pc = "done" /\ runs[r].outcome = "ok"

\* the scope list of the render the run was started from
ScopeListAt(r) == ScopeListOf(runs[r].ordered, runs[r].custom)

\* the scope calls the run has made for a scope, retries apart
CallsFor(r, id) ==
    Cardinality({k \in 1..Len(requests) :
                    /\ requests[k].run = r
                    /\ requests[k].kind = "scope"
                    /\ requests[k].scope = id
                    /\ requests[k].attempt = 0})

\* C24: when a run has completed successfully, every scope of the scope list it was
\* configured with, selected built-in scope or custom scope, has had one API call made
\* for it, and has a findings list in the result map the results screen shows.
C24_RunCoversScopeList ==
    \A r \in 1..Len(runs) :
        Succeeded(r) =>
            \A k \in 1..Len(ScopeListAt(r)) :
                /\ CallsFor(r, ScopeListAt(r)[k].id) = 1
                /\ step = "results" => HasPart(resultMap, ScopeListAt(r)[k].id)

\* a run configured with a custom scope has completed successfully and its results
\* are on the screen
C24_Witness ==
    \E r \in 1..Len(runs) :
        Succeeded(r) /\ runs[r].custom # <<>> /\ step = "results"

\* the same for the built-in scopes alone
SelectedScopesCovered ==
    \A r \in 1..Len(runs) :
        Succeeded(r) =>
            \A k \in 1..Len(runs[r].ordered) :
                /\ CallsFor(r, runs[r].ordered[k]) = 1
                /\ step = "results" => HasPart(resultMap, runs[r].ordered[k])

\* ---------------------------------------------------------------------------------
\* reset() while a run is under way.  One run is followed, so a run that is still
\* under way while the home screen shows has been reset: the run itself leaves the
\* home screen at its start and comes back to it only as it ends.

ResetUnderWay == step = "home" /\ \E r \in 1..Len(runs) : Active(r)

\* what the claim says a run that was reset no longer touches
ShownOfRun == <<step, resultMap, totalFindings, streamingId, activeScopeId>>

\* C25: after reset() during a run (during the extraction of the text, an API call,
\* a retry wait or the pause between two scopes) the run sends no further request and
\* updates none of step, resultMap, totalFindings, streamingId, activeScopeId: the
\* home screen stays as reset() left it.
C25_ResetStopsRun ==
    [][ResetUnderWay => requests' = requests /\ ShownOfRun' = ShownOfRun]_vars

\* a run was reset during the pause between two scopes
C25_Witness ==
    \E r \in 1..Len(runs) : step = "home" /\ At(r, "pause") /\ resultMap = NoFiles

\* the same for a run reset during a scope call, its request or a retry wait of it
AbortedCallStops ==
    [][\A r \in 1..Len(runs) :
            ResetUnderWay /\ runs[r].pc \in {"fetch", "wait"} /\ Aborted(Cur, r)
                => /\ requests' = requests
                   /\ ShownOfRun' = ShownOfRun
                   /\ runs'[r].pc \in {"done", "wait"}]_vars

\* ---------------------------------------------------------------------------------
\* The ways runAnalysis returns.

\* the step is the one in which the run returns
Returns(r) == r \in 1..Len(runs) /\ runs[r].pc # "done" /\ runs'[r].pc = "done"

\* every scope of the work list of the run has been answered
AllAnswered(run) == run.ordered = <<>> \/ (run.i = Len(run.ordered) - 1 /\ run.resp = 200)

\* C26: however runAnalysis returns (success, failure, abort), on return the ticker
\* is stopped, streamingId is null and the progress is 100; a failure that is not an
\* abort, wherever in the run, sets the error message and takes step to home; an abort
\* sets no error message and leaves step alone.  A run returns successfully only with
\* every scope answered, and as aborted only if the controller of its call was aborted.
C26_ExitPaths ==
    [][\A r \in 1..Len(runs) :
            Returns(r) =>
                /\ ~runs'[r].ticker
                /\ streamingId' = Null
                /\ analysisProgress' = 100
                /\ runs'[r].outcome \in {"ok", "failed", "aborted"}
                /\ runs'[r].outcome = "ok" => AllAnswered(runs'[r])
                /\ runs'[r].outcome = "failed" =>
                        /\ StartsWith(analysisError', "Analysis failed: ")
                        /\ step' = "home"
                /\ runs'[r].outcome = "aborted" =>
                        /\ Aborted(Cur, r)
                        /\ analysisError' = analysisError
                        /\ step' = step]_vars

\* a run has failed after findings had appeared on the results screen
C26_Witness ==
    \E r \in 1..Len(runs) :
        /\ runs[r].outcome = "failed"
        /\ runs[r].i > 0
        /\ step = "home"
        /\ \E id \in DOMAIN resultMap : resultMap[id] # <<>>

\* a run has returned on each of the three paths
ReturnedOk == \E r \in 1..Len(runs) : Succeeded(r)

ReturnedAborted == \E r \in 1..Len(runs) : runs[r].outcome = "aborted"

\* ---------------------------------------------------------------------------------
\* What the splice keeps of the body.

\* the sections put into the body at k, the body otherwise whole
InsertedAt(body, content, k) ==
    SubSeq(body, 1, k) \o content \o SubSeq(body, k + 1, Len(body))

\* C27: the splice discards nothing of the template body: every character of the
\* body (after the title replacement) is in the prefix or in the suffix kept, also
\* when something other than a paragraph end stands between the last paragraph end
\* and the last section-properties block, so the new body is the body with the
\* generated markup inserted and is as long as the two together.
C27_SpliceKeepsBody ==
    Spliced =>
        /\ Len(newDocXml) = Len(docXml) + Len(contentXml)
        /\ \E k \in 0..Len(docXml) : newDocXml = InsertedAt(docXml, contentXml, k)

\* what lies between the prefix and the suffix of a body
Dropped(body) == SubSeq(body, FrontEnd(body) + 1, LastSectAt(body))

\* a body whose last paragraph end is that of a table cell was spliced: the closing
\* tags of the table stand between the prefix and the suffix
C27_Witness ==
    /\ Spliced
    /\ HasFrontSpan(docXml)
    /\ Dropped(docXml) = "</w:tc></w:tr></w:tbl>"

\* a body with its last block right after a paragraph end was spliced
SpliceAdjacent == Spliced /\ HasFrontSpan(docXml) /\ Dropped(docXml) = ""

\* for such a body the claim holds
SpliceKeepsAdjacent ==
    (Spliced /\ HasFrontSpan(docXml) /\ Dropped(docXml) = "") =>
        newDocXml = InsertedAt(docXml, contentXml, FrontEnd(docXml))

\* what the splice does in general: the text between the two is left out
SpliceLeavesOut ==
    (Spliced /\ HasFrontSpan(docXml)) =>
        /\ newDocXml = FrontSpan(docXml) \o contentXml \o BackSpan(docXml)
        /\ Len(newDocXml) = Len(docXml) + Len(contentXml) - Len(Dropped(docXml))

\* ---------------------------------------------------------------------------------
\* The attempts of one scope call.

\* the requests a run has sent for a scope
RequestsFor(r, id) ==
    {k \in 1..Len(requests) :
        requests[k].run = r /\ requests[k].kind = "scope" /\ requests[k].scope = id}

\* the run is in a scope call or has ended in one
InCall(r) == r \in 1..Len(runs) /\ runs[r].ctl # 0 /\ runs[r].pc \in {"fetch", "wait", "done"}

\* the call has not sent more than four requests; the answer it holds, if it is
\* neither OK nor a rate limit, has ended the run at once with its error; four rate
\* limits have ended it with the message of the last; after fewer the call goes on,
\* unless a fetch of it was rejected
CallState(r) ==
    LET run == runs[r]
        sent == Cardinality(RequestsFor(r, ScopeIdOf(run)))
    IN  /\ sent <= 4
        /\ run.attempt <= 4
        /\ run.resp \notin {0, 200, 429, 529} =>
                /\ run.pc = "done"
                /\ run.outcome = "failed"
                /\ sent = run.attempt + 1
                /\ analysisError = "Analysis failed: API error " \o ToString(run.resp)
        /\ run.attempt = 4 =>
                /\ run.pc = "done"
                /\ run.outcome = "failed"
                /\ sent = 4
                /\ run.resp \in {429, 529}
                /\ analysisError = "Analysis failed: "
                        \o (IF run.resp = 529 THEN "Overloaded" ELSE "Rate limit exceeded")
        /\ (run.resp \in {429, 529} /\ run.attempt < 4) =>
                \/ run.pc \in {"wait", "fetch"}
                \/ analysisError = "Analysis failed: Failed to fetch"

\* findings appear for a scope in this step
FindingsArrive(id) ==
    /\ id \in DOMAIN resultMap'
    /\ resultMap'[id] # <<>>
    /\ id \notin DOMAIN resultMap \/ resultMap[id] = <<>>

\* C28: one scope call ends after at most 4 requests: an answer that is neither OK
\* nor 429/529 fails the call at once, with no retry; four rate-limit answers in a
\* row fail it with the message of the last one; findings come only from an attempt
\* answered OK.
C28_CallBounded ==
    [][/\ \A r \in 1..Len(runs') : InCall(r)' => CallState(r)'
       /\ \A id \in DOMAIN resultMap' :
            FindingsArrive(id) =>
                \E r \in 1..Len(runs) :
                    /\ At(r, "fetch")
                    /\ ScopeIdOf(runs[r]) = id
                    /\ runs'[r].resp = 200
                    /\ resultMap'[id] = ApiFindings(id)]_vars

\* a call has failed on its fourth rate limit, a 529 after a 429
C28_Witness ==
    \E r \in 1..Len(runs) :
        /\ runs[r].attempt = 4
        /\ runs[r].outcome = "failed"
        /\ analysisError = "Analysis failed: Overloaded"
        /\ Cardinality(RequestsFor(r, ScopeIdOf(runs[r]))) = 4

\* a call has failed on an answer that is no rate limit, after a retry
FailedAtOnce ==
    \E r \in 1..Len(runs) : runs[r].resp = 500 /\ runs[r].attempt = 1 /\ runs[r].pc = "done"

\* a call has returned findings on its fourth attempt
LastAttemptAnswered ==
    \E r \in 1..Len(runs) : runs[r].resp = 200 /\ runs[r].attempt = 3

\* ---------------------------------------------------------------------------------
\* The total shown and the result map.

\* the lengths of the lists the result map holds, scope by scope
ListLengths ==
    [k \in 1..Len(AllScopes) |->
        IF HasPart(resultMap, AllScopes[k].id) THEN Len(resultMap[AllScopes[k].id]) ELSE 0]

\* C29: in every state totalFindings is the sum of the lengths of the finding lists
\* that resultMap holds, across runs and resets.
C29_TotalMatchesMap == totalFindings = SumOf(ListLengths)

\* findings are counted on the home screen after a reset
C29_Witness ==
    /\ step = "home"
    /\ totalFindings > 0
    /\ \E r \in 1..Len(runs) : runs[r].i > 0 /\ runs[r].outcome = "ok"

\* ---------------------------------------------------------------------------------
\* What reset() changes and what it leaves.

\* the uploaded template: its bytes, its body and the styles detected in it
customTemplate == <<templateBuffer, templateParts, st>>

\* the inputs and the results are as the component is mounted with them
InputsAndResultsFresh ==
    /\ step = "home"
    /\ docType = "pdf"
    /\ urlInput = ""
    /\ fileName = ""
    /\ docName = ""
    /\ docTitle = [title |-> "", subtitle |-> "", revision |-> ""]
    /\ selectedScopes = <<"new_features", "deprecated", "deployment_changes">>
    /\ customScopes = <<>>
    /\ Len(scopeList) = 3
    /\ resultMap = NoFiles
    /\ streamingId = Null
    /\ activeScopeId = Null
    /\ totalFindings = 0
    /\ analysisError = Null

\* so are the fields of the analysis
AnalysisFresh == analysisProgress = 0 /\ currentScopeIdx = 0 /\ analysisPhase = ""

\* C30 as stated: reset() leaves the uploaded template (bytes, detected styles)
\* unchanged and returns every other input, analysis and result field to its initial
\* value.
C30_ResetFrame ==
    [][Reset => /\ customTemplate' = customTemplate
                /\ InputsAndResultsFresh'
                /\ AnalysisFresh']_vars

\* what reset() does: it leaves the uploaded template unchanged and returns the
\* inputs, the results, the progress and the scope index to their initial values;
\* the phase text of the analysis keeps the value it had
ResetFrameButPhase ==
    [][Reset => /\ customTemplate' = customTemplate
                /\ InputsAndResultsFresh'
                /\ analysisProgress' = 0
                /\ currentScopeIdx' = 0
                /\ analysisPhase' = analysisPhase]_vars

\* a run with an uploaded template, a URL and a custom scope was reset while the
\* phase text of its pause was showing
C30_Witness ==
    /\ InputsAndResultsFresh
    /\ runs # <<>>
    /\ st # DEFAULT_STYLES
    /\ templateParts = UploadedTemplate
    /\ runs[1].custom # <<>>
    /\ runs[1].docType = "url"
    /\ At(1, "pause")
    /\ analysisPhase = PausePhase(runs[1].remaining)

====
